---- MODULE Spec2Model ----
(***************************************************************************)
(* Model of autocoder_utils/gh_pr_helper.py: the GraphQL page calls, the   *)
(* review-comment aggregation with its two nested pagination loops, and    *)
(* the CI failure collector.                                               *)
(*                                                                         *)
(* JSON values are tagged records; the Python operations used on them      *)
(* ("in", subscript, .get, "or", truthiness) are operators that yield      *)
(* either a JSON value or the exception Python raises.                     *)
(***************************************************************************)
EXTENDS Integers, Sequences, FiniteSets, TLC

\* ----------------------------------------------------------------- bounds
\* Review threads of the pull request on the host.
MaxThreads == 3
\* Comments held by one thread on the host.
MaxComments == 3
\* Host calls one run of the aggregation may issue before it is cut off.
MaxCalls == 6
\* Page sizes of the query document (first: 100 in the source), scaled.
ThreadPageSize == 2
CommentPageSize == 1

\* ------------------------------------------------------------ JSON values
JNull == [k |-> "null"]
JBool(b) == [k |-> "bool", b |-> b]
JNum(n) == [k |-> "num", n |-> n]
JStr(s) == [k |-> "str", s |-> s]
JArr(a) == [k |-> "arr", a |-> a]
JObj(o) == [k |-> "obj", o |-> o]
\* An opaque non-empty string the host mints (a cursor, a body, a path):
\* tag s, owner t, position i.
JTok(s, t, i) == [k |-> "str", s |-> s, t |-> t, i |-> i]
\* A string spelled out as its characters.
JText(chars) == [k |-> "str", s |-> "text", c |-> chars]
\* A multi-line string: its lines (split at "\n"), each a sequence of
\* segments; the segment " " is whitespace, every other one is not.
JLog(text) == [k |-> "str", s |-> "log", l |-> text]
JEmptyObj == JObj([key \in {} |-> JNull])
JEmptyArr == JArr(<<>>)
\* A Python exception in flight.
Exc(e) == [k |-> "exc", e |-> e]
IsExc(v) == v.k = "exc"

\* bool(v)
Truthy(v) ==
  CASE v.k = "null" -> FALSE
    [] v.k = "bool" -> v.b
    [] v.k = "num" -> v.n # 0
    [] v.k = "str" -> IF "c" \in DOMAIN v THEN Len(v.c) > 0
                      ELSE IF "l" \in DOMAIN v THEN v.l # << <<>> >>
                      ELSE v.s # ""
    [] v.k = "arr" -> Len(v.a) > 0
    [] v.k = "obj" -> DOMAIN v.o # {}

\* key in v  (key is a str): a TLA+ boolean or an exception
PyIn(key, v) ==
  CASE v.k = "exc" -> v
    [] v.k = "obj" -> JBool(key \in DOMAIN v.o)
    [] v.k = "str" -> JBool(v.s = key)
    [] v.k = "arr" -> JBool(\E j \in 1..Len(v.a) : v.a[j] = JStr(key))
    [] OTHER -> Exc("TypeError")

\* v[key]  (key is a str)
PySub(v, key) ==
  CASE v.k = "exc" -> v
    [] v.k = "obj" -> IF key \in DOMAIN v.o THEN v.o[key] ELSE Exc("KeyError")
    [] OTHER -> Exc("TypeError")

\* v.get(key, default)
PyGetD(v, key, default) ==
  CASE v.k = "exc" -> v
    [] v.k = "obj" -> IF key \in DOMAIN v.o THEN v.o[key] ELSE default
    [] OTHER -> Exc("AttributeError")

\* v.get(key)
PyGet(v, key) == PyGetD(v, key, JNull)

\* v or default
PyOr(v, default) == IF IsExc(v) THEN v ELSE IF Truthy(v) THEN v ELSE default

\* ------------------------------------------------ the four API error kinds
GitHubAPIErrors ==
  {"GitHubAPICallError", "GitHubJSONError", "GitHubGraphQLError", "GitHubResponseError"}

\* ------------------------------------------------------- process results
\* What subprocess.run hands back: a non-zero exit, or a stdout that is or
\* is not JSON.
ProcFailed == [status |-> "nonzero", parses |-> FALSE, payload |-> JNull]
ProcGarbage == [status |-> "zero", parses |-> FALSE, payload |-> JNull]
ProcJSON(v) == [status |-> "zero", parses |-> TRUE, payload |-> v]

Raise(e) == [kind |-> "raise", error |-> e, items |-> JNull, has_next |-> JNull, cursor |-> JNull]
Return(items, has_next, cursor) ==
  [kind |-> "return", error |-> "none", items |-> items, has_next |-> has_next, cursor |-> cursor]

\* lines 220-229 with the errors array honoured only when data is missing
Envelope_DataFirst(res) ==
  IF res.status = "nonzero" THEN "GitHubAPICallError"
  ELSE IF ~res.parses THEN "GitHubJSONError"
  ELSE LET has == PyIn("errors", res.payload) IN
       IF IsExc(has) THEN has.e
       ELSE IF ~has.b THEN "pass"
       ELSE LET errs == PySub(res.payload, "errors") IN
            IF IsExc(errs) THEN errs.e
            ELSE IF Truthy(errs) /\ ~PyIn("data", res.payload).b
                 THEN "GitHubGraphQLError" ELSE "pass"

\* lines 220-229: run the command, parse stdout, test the errors array.
\* Yields "pass" when the payload goes on to shape extraction.
Envelope(res) ==
  IF res.status = "nonzero" THEN "GitHubAPICallError"
  ELSE IF ~res.parses THEN "GitHubJSONError"
  ELSE LET has == PyIn("errors", res.payload) IN
       IF IsExc(has) THEN has.e
       ELSE IF ~has.b THEN "pass"
       ELSE LET errs == PySub(res.payload, "errors") IN
            IF IsExc(errs) THEN errs.e
            ELSE IF Truthy(errs) THEN "GitHubGraphQLError" ELSE "pass"

\* payload["data"]["repository"]["pullRequest"]
PullRequestOf(payload) ==
  PySub(PySub(PySub(payload, "data"), "repository"), "pullRequest")

\* except (KeyError, TypeError): anything else escapes as it is
Caught(e) == IF e \in {"KeyError", "TypeError"} THEN "GitHubResponseError" ELSE e

\* _fetch_review_threads_page, from the process result on
FetchReviewThreadsPage(res) ==
  LET env == Envelope(res) IN
  IF env # "pass" THEN Raise(env)
  ELSE LET review_threads_data == PySub(PullRequestOf(res.payload), "reviewThreads")
           threads == PyOr(PyGet(review_threads_data, "edges"), JEmptyArr)
           page_info == PyOr(PyGet(review_threads_data, "pageInfo"), JEmptyObj)
           has_next == PyGetD(page_info, "hasNextPage", JBool(FALSE))
           cursor == PyGet(page_info, "endCursor")
       IN IF IsExc(threads) THEN Raise(Caught(threads.e))
          ELSE IF IsExc(page_info) THEN Raise(Caught(page_info.e))
          ELSE IF IsExc(has_next) THEN Raise(has_next.e)
          ELSE Return(threads, has_next, cursor)

\* _fetch_thread_comments_page, from the process result on
FetchThreadCommentsPage(res) ==
  LET env == Envelope(res) IN
  IF env # "pass" THEN Raise(env)
  ELSE LET threads == PySub(PySub(PullRequestOf(res.payload), "reviewThreads"), "edges") IN
       IF IsExc(threads) THEN Raise(Caught(threads.e))
       ELSE IF ~Truthy(threads) THEN Return(JEmptyArr, JBool(FALSE), JNull)
       ELSE LET first == IF threads.k = "arr" THEN threads.a[1]
                         ELSE IF threads.k = "obj" THEN Exc("KeyError")
                         ELSE IF threads.k = "str" THEN JStr(threads.s)
                         ELSE Exc("TypeError")
                comments_data == PyGetD(PyGetD(first, "node", JEmptyObj), "comments", JEmptyObj)
                comment_nodes == PyOr(PyGet(comments_data, "nodes"), JEmptyArr)
                page_info == PyOr(PyGet(comments_data, "pageInfo"), JEmptyObj)
                has_next == PyGetD(page_info, "hasNextPage", JBool(FALSE))
                cursor == PyGet(page_info, "endCursor")
            IN IF IsExc(comment_nodes) THEN Raise(Caught(comment_nodes.e))
               ELSE IF IsExc(page_info) THEN Raise(Caught(page_info.e))
               ELSE IF IsExc(has_next) THEN Raise(has_next.e)
               ELSE Return(comment_nodes, has_next, cursor)

\* for x in v: the items Python iterates over, or the exception it raises
PyIter(v) ==
  CASE v.k = "exc" -> v
    [] v.k = "arr" -> v
    [] v.k = "obj" -> JArr([j \in 1..Cardinality(DOMAIN v.o) |-> JStr("key")])
    [] v.k = "str" -> JArr(<<JStr("char")>>)
    [] OTHER -> Exc("TypeError")

\* lines 448-461 without the test of the conclusion
FailedRunOf_AnyConclusion(context) ==
  LET typename == PyGet(context, "__typename")
      workflow_run == PyOr(PyGet(PyOr(PyGet(context, "checkSuite"), JEmptyObj), "workflowRun"), JEmptyObj)
      run_id == PyGet(workflow_run, "databaseId")
  IN IF IsExc(typename) THEN typename
     ELSE IF typename # JStr("CheckRun") THEN JStr("skip")
     ELSE IF IsExc(run_id) THEN run_id
     ELSE JObj([name |-> PyGet(context, "name"),
                details_url |-> PyGet(context, "detailsUrl"),
                workflow_run_id |-> run_id,
                workflow_url |-> PyGet(workflow_run, "url")])

\* lines 448-461: the failed run of one context, "skip" for a context that
\* is filtered out
FailedRunOf(context) ==
  LET typename == PyGet(context, "__typename")
      workflow_run == PyOr(PyGet(PyOr(PyGet(context, "checkSuite"), JEmptyObj), "workflowRun"), JEmptyObj)
      run_id == PyGet(workflow_run, "databaseId")
  IN IF IsExc(typename) THEN typename
     ELSE IF typename # JStr("CheckRun") THEN JStr("skip")
     ELSE IF PyGet(context, "conclusion") # JStr("FAILURE") THEN JStr("skip")
     ELSE IF IsExc(run_id) THEN run_id
     ELSE JObj([name |-> PyGet(context, "name"),
                details_url |-> PyGet(context, "detailsUrl"),
                workflow_run_id |-> run_id,
                workflow_url |-> PyGet(workflow_run, "url")])

\* lines 447-461: the loop over the contexts of one commit
RECURSIVE FailedRunsOfContexts(_, _, _)
FailedRunsOfContexts(contexts, j, failed_runs) ==
  IF j > Len(contexts.a) THEN JArr(failed_runs)
  ELSE LET run == FailedRunOf(contexts.a[j]) IN
       IF IsExc(run) THEN run
       ELSE FailedRunsOfContexts(contexts, j + 1,
              IF run = JStr("skip") THEN failed_runs ELSE Append(failed_runs, run))

\* lines 442-461: the loop over the commit nodes
RECURSIVE FailedRunsOfCommits(_, _, _)
FailedRunsOfCommits(commit_nodes, j, failed_runs) ==
  IF j > Len(commit_nodes.a) THEN JArr(failed_runs)
  ELSE LET commit == PyOr(PyGet(commit_nodes.a[j], "commit"), JEmptyObj)
           status_rollup == PyOr(PyGet(commit, "statusCheckRollup"), JEmptyObj)
           contexts == PyIter(PyOr(PyGet(PyOr(PyGet(status_rollup, "contexts"), JEmptyObj), "nodes"), JEmptyArr))
       IN IF IsExc(contexts) THEN contexts
          ELSE LET runs == FailedRunsOfContexts(contexts, 1, failed_runs) IN
               IF IsExc(runs) THEN runs ELSE FailedRunsOfCommits(commit_nodes, j + 1, runs.a)

\* fetch_failed_ci_runs, from the process result on
FetchFailedCIRuns(res) ==
  LET env == Envelope(res) IN
  IF env # "pass" THEN Raise(env)
  ELSE LET commit_nodes == PyOr(PyGet(PySub(PullRequestOf(res.payload), "commits"), "nodes"), JEmptyArr) IN
       IF IsExc(commit_nodes) THEN Raise(Caught(commit_nodes.e))
       ELSE LET nodes == PyIter(commit_nodes) IN
            IF IsExc(nodes) THEN Raise(nodes.e)
            ELSE LET runs == FailedRunsOfCommits(nodes, 1, <<>>) IN
                 IF IsExc(runs) THEN Raise(runs.e) ELSE Return(runs, JNull, JNull)

\* ------------------------------------------------------------------ text
\* The empty string.
EmptyText == << <<>> >>

IsBlank(line) == \A j \in 1..Len(line) : line[j] = " "

RECURSIVE LStripLine(_)
LStripLine(line) ==
  IF line # <<>> /\ line[1] = " " THEN LStripLine(Tail(line)) ELSE line

RECURSIVE RStripLine(_)
RStripLine(line) ==
  IF line # <<>> /\ line[Len(line)] = " " THEN RStripLine(SubSeq(line, 1, Len(line) - 1)) ELSE line

RECURSIVE LStrip(_)
LStrip(text) ==
  IF Len(text) > 1 /\ IsBlank(text[1]) THEN LStrip(Tail(text))
  ELSE <<LStripLine(text[1])>> \o Tail(text)

RECURSIVE RStrip(_)
RStrip(text) ==
  IF Len(text) > 1 /\ IsBlank(text[Len(text)]) THEN RStrip(SubSeq(text, 1, Len(text) - 1))
  ELSE SubSeq(text, 1, Len(text) - 1) \o <<RStripLine(text[Len(text)])>>

\* str.strip()
Strip(text) == RStrip(LStrip(text))

\* str.splitlines(): a newline that ends the text starts no further line
SplitLines(text) ==
  IF text[Len(text)] = <<>> THEN SubSeq(text, 1, Len(text) - 1) ELSE text

\* "\n".join(lines)
JoinLines(lines) == IF lines = <<>> THEN EmptyText ELSE lines

\* a + b
Concat(a, b) ==
  SubSeq(a, 1, Len(a) - 1) \o <<a[Len(a)] \o b[1]>> \o Tail(b)

\* str.lower() of one segment
Lower(seg) ==
  CASE seg \in {"FAILED", "Failed", "failed"} -> "failed"
    [] seg \in {"short test summary info", "Short Test Summary Info"} -> "short test summary info"
    [] OTHER -> seg

\* marker in line.lower(), for segments none of which holds part of a marker
LineHas(line, marker) == \E j \in 1..Len(line) : Lower(line[j]) = marker

\* lines 491-494 / 497-500: index (from 1) of the first line holding the
\* marker, 0 when there is none
FirstLineWith(lines, marker) ==
  IF \E j \in 1..Len(lines) : LineHas(lines[j], marker)
  THEN CHOOSE j \in 1..Len(lines) :
         LineHas(lines[j], marker) /\ \A h \in 1..(j - 1) : ~LineHas(lines[h], marker)
  ELSE 0

\* line 503
TailLines == 40

\* the first line holding "failed" preferred to the summary marker
SummarizeCiLog_FailedFirst(log_output, include_full_log) ==
  IF include_full_log \/ log_output = EmptyText THEN log_output
  ELSE LET lines == SplitLines(Strip(log_output)) IN
       IF lines = <<>> THEN EmptyText
       ELSE LET summary == FirstLineWith(lines, "short test summary info")
                failed == FirstLineWith(lines, "failed")
                start == IF failed # 0 THEN failed
                         ELSE IF summary # 0 THEN summary
                         ELSE IF Len(lines) > TailLines THEN Len(lines) - TailLines + 1 ELSE 1
            IN Strip(JoinLines(SubSeq(lines, start, Len(lines))))

\* the full log trimmed like a summary
SummarizeCiLog_FullTrimmed(log_output, include_full_log) ==
  IF log_output = EmptyText THEN log_output
  ELSE IF include_full_log THEN Strip(log_output)
  ELSE LET lines == SplitLines(Strip(log_output)) IN
       IF lines = <<>> THEN EmptyText
       ELSE LET summary == FirstLineWith(lines, "short test summary info")
                failed == FirstLineWith(lines, "failed")
                start == IF summary # 0 THEN summary
                         ELSE IF failed # 0 THEN failed
                         ELSE IF Len(lines) > TailLines THEN Len(lines) - TailLines + 1 ELSE 1
            IN Strip(JoinLines(SubSeq(lines, start, Len(lines))))

\* the kept lines joined but not trimmed
SummarizeCiLog_Untrimmed(log_output, include_full_log) ==
  IF include_full_log \/ log_output = EmptyText THEN log_output
  ELSE LET lines == SplitLines(Strip(log_output)) IN
       IF lines = <<>> THEN EmptyText
       ELSE LET summary == FirstLineWith(lines, "short test summary info")
                failed == FirstLineWith(lines, "failed")
                start == IF summary # 0 THEN summary
                         ELSE IF failed # 0 THEN failed
                         ELSE IF Len(lines) > TailLines THEN Len(lines) - TailLines + 1 ELSE 1
            IN JoinLines(SubSeq(lines, start, Len(lines)))

\* _summarize_ci_log
SummarizeCiLog(log_output, include_full_log) ==
  IF include_full_log \/ log_output = EmptyText THEN log_output
  ELSE LET lines == SplitLines(Strip(log_output)) IN
       IF lines = <<>> THEN EmptyText
       ELSE LET summary == FirstLineWith(lines, "short test summary info")
                failed == FirstLineWith(lines, "failed")
                start == IF summary # 0 THEN summary
                         ELSE IF failed # 0 THEN failed
                         ELSE IF Len(lines) > TailLines THEN Len(lines) - TailLines + 1 ELSE 1
            IN Strip(JoinLines(SubSeq(lines, start, Len(lines))))

\* str(n) of a natural number, digit by digit
Digit(d) == <<"0", "1", "2", "3", "4", "5", "6", "7", "8", "9">>[d + 1]
RECURSIVE Digits(_)
Digits(n) == IF n < 10 THEN <<Digit(n)>> ELSE Digits(n \div 10) \o <<Digit(n % 10)>>

\* str(v) / f"{v}" of a JSON value that is None, an int or a string
PyStr(v) ==
  CASE v.k = "null" -> <<"N", "o", "n", "e">>
    [] v.k = "num" -> Digits(v.n)
    [] v.k = "str" -> v.c

\* ----------------------------------------------------------------- state
\* The pull request on the host: prThreads[t] = [resolved, ncomments].
\* Thread t has path Tok("path",t), line t, and comments whose bodies are
\* Tok("body",t,1..ncomments).  cursorMode is how the host reads a comments
\* cursor in a thread other than the one that minted it: as a bare offset
\* ("offset"), or as pointing past the end of that thread ("scoped").
VARIABLES prThreads, cursorMode

\* prContexts: the status-check contexts of the latest commit on the host.
VARIABLE prContexts

\* pc                    where fetch_pr_comments stands: not called yet
\*                       ("idle"); about to call "threads" (line 319),
\*                       "comments" (line 360), "issues" (line 398); or
\*                       "done", "raised"
\* review_comments       the accumulating list (line 314)
\* threads_after         the threads cursor (line 315)
\* threads               the edges of the page being walked (line 319)
\* has_next_thread_page, next_thread_cursor   (line 319)
\* idx                   position of the for loop of line 323 in threads
\* comments_after        the comments cursor (lines 333, 359)
\* issue_comments        what fetch_api returned (line 398)
\* error                 the exception that left the operation, or "none"
\* calls                 every host call issued, in order, with its outcome
VARIABLES pc, review_comments, threads_after, threads, has_next_thread_page,
          next_thread_cursor, idx, comments_after, issue_comments, error, calls

aggVars == <<pc, review_comments, threads_after, threads, has_next_thread_page,
             next_thread_cursor, idx, comments_after, issue_comments, error, calls>>
hostVars == <<prThreads, cursorMode>>

\* ci_pc              where collect_ci_failures stands: "idle", about to
\*                    call fetch_failed_ci_runs ("runs", line 515), in the
\*                    loop of line 519 ("loop"), "done" or "raised"
\* include_full_logs  the argument
\* failed_runs        what fetch_failed_ci_runs returned (line 515)
\* run_idx            position of the loop of line 519 in failed_runs
\* ci_failures        the accumulating result (line 516)
\* seen_runs          the dedup keys met so far (line 517)
\* ci_error           the exception that left the operation, or "none"
\* log_calls          every fetch_ci_run_log call, in order, with its outcome
VARIABLES ci_pc, include_full_logs, failed_runs, run_idx, ci_failures, seen_runs,
          ci_error, log_calls

ciVars == <<ci_pc, include_full_logs, failed_runs, run_idx, ci_failures, seen_runs,
            ci_error, log_calls>>

\* graphql_call = [fn, res, out]: the call fn ("threads", "comments", "ci")
\* is given the process result res; out is its outcome once it has run.
VARIABLE graphql_call

\* fn_call = [fn, args, out]: the function fn ("summarize", "format",
\* "parse") is given the arguments args; out is its outcome once it has run.
VARIABLE fn_call

\* main_pc      where gh_pr_helper stands: "idle", "args" (lines 669-679),
\*              "comments" (line 681), "ci" (line 682), "render" (lines
\*              685-693), "exited"
\* argv         the parsed arguments (line 667)
\* pr_target    owner, repo and pr_number (lines 670-676)
\* sys_stdout, sys_stderr   what has been printed, one entry per print call
\* exit_status  "none" while running, else the status the process left with
VARIABLES main_pc, argv, pr_target, sys_stdout, sys_stderr, exit_status

mainVars == <<main_pc, argv, pr_target, sys_stdout, sys_stderr, exit_status>>

vars == <<prThreads, cursorMode, pc, review_comments, threads_after, threads,
          has_next_thread_page, next_thread_cursor, idx, comments_after,
          issue_comments, error, calls, prContexts, graphql_call,
          ci_pc, include_full_logs, failed_runs, run_idx, ci_failures, seen_runs,
          ci_error, log_calls, fn_call, main_pc, argv, pr_target, sys_stdout, sys_stderr,
          exit_status>>

\* --------------------------------------------------------- the host's data

HostThreads == [resolved : BOOLEAN, ncomments : 0..MaxComments]
HostPRs == UNION {[1..n -> HostThreads] : n \in 0..MaxThreads}

Min(a, b) == IF a < b THEN a ELSE b

\* A comment node of the query document (lines 60-67).
CommentNode(t, i) ==
  JObj([author |-> JObj([login |-> JTok("login", t, i)]),
        body |-> JTok("body", t, i),
        url |-> JTok("url", t, i),
        diffHunk |-> JTok("hunk", t, i)])

\* comments(first: 100, after: $commentsAfter) of thread t (lines 55-68).
CommentsOffset(t, commentsAfter) ==
  IF commentsAfter.k # "str" THEN 0
  ELSE IF cursorMode = "offset" \/ commentsAfter.t = t THEN commentsAfter.i
  ELSE prThreads[t].ncomments

CommentsConnection(t, commentsAfter) ==
  LET n == prThreads[t].ncomments
      off == Min(CommentsOffset(t, commentsAfter), n)
      last == Min(off + CommentPageSize, n)
  IN JObj([pageInfo |-> JObj([hasNextPage |-> JBool(last < n),
                              endCursor |-> IF last > off THEN JTok("ccur", t, last) ELSE JNull]),
           nodes |-> JArr([j \in 1..(last - off) |-> CommentNode(t, off + j)])])

\* An edge of reviewThreads (lines 49-70).
ThreadEdge(t, commentsAfter) ==
  JObj([node |-> JObj([isResolved |-> JBool(prThreads[t].resolved),
                       path |-> JTok("path", t, 0),
                       line |-> JNum(t),
                       startLine |-> JNull,
                       comments |-> CommentsConnection(t, commentsAfter)])])

\* reviewThreads(first: 100, after: $threadsAfter) (lines 44-71).
ThreadsConnection(threadsAfter, commentsAfter) ==
  LET n == Len(prThreads)
      off == IF threadsAfter.k = "str" THEN Min(threadsAfter.i, n) ELSE 0
      last == Min(off + ThreadPageSize, n)
  IN JObj([pageInfo |-> JObj([hasNextPage |-> JBool(last < n),
                              endCursor |-> IF last > off THEN JTok("tcur", 0, last) ELSE JNull]),
           edges |-> JArr([j \in 1..(last - off) |-> ThreadEdge(off + j, commentsAfter)])])

\* The envelope the host answers GRAPHQL_REVIEW_COMMENTS_QUERY with.
ReviewCommentsPayload(threadsAfter, commentsAfter) ==
  JObj([data |-> JObj([repository |-> JObj([pullRequest |->
          JObj([reviewThreads |-> ThreadsConnection(threadsAfter, commentsAfter)])])])])

\* What a host call can come back with instead of the answer: the process
\* fails, stdout is not JSON, the envelope carries errors, data is null.
FailingResults ==
  { ProcFailed, ProcGarbage,
    ProcJSON(JObj([errors |-> JArr(<<JObj([message |-> JStr("x")])>>)])),
    ProcJSON(JObj([data |-> JNull])) }

\* lines 215-218 and 276-279: a cursor is put on the command line only when
\* it is truthy.
CursorArg(cursor) == IF Truthy(cursor) THEN cursor ELSE JNull

\* The cursor variables of a request: those put on the command line.
NoCursors == [threadsAfter |-> JNull, commentsAfter |-> JNull]

\* lines 202-218 with the comments cursor of the aggregation sent along
ThreadsPageRequest_WithComments(after) ==
  [threadsAfter |-> CursorArg(after), commentsAfter |-> CursorArg(comments_after)]

\* lines 202-218: the request of _fetch_review_threads_page(threads_after)
ThreadsPageRequest(after) == [threadsAfter |-> CursorArg(after), commentsAfter |-> JNull]

\* lines 263-279: the request of _fetch_thread_comments_page(comments_after)
CommentsPageRequest(after) == [threadsAfter |-> JNull, commentsAfter |-> CursorArg(after)]

\* The request a call sends.
RequestOf(fn, arg) ==
  IF fn = "threads" THEN ThreadsPageRequest(arg)
  ELSE IF fn = "comments" THEN CommentsPageRequest(arg)
  ELSE NoCursors

\* The results the host may give _fetch_review_threads_page(threads_after).
ThreadsPageResults(after) ==
  LET req == ThreadsPageRequest(after) IN
  {ProcJSON(ReviewCommentsPayload(req.threadsAfter, req.commentsAfter))} \cup FailingResults

\* The results the host may give _fetch_thread_comments_page(comments_after).
CommentsPageResults(after) ==
  LET req == CommentsPageRequest(after) IN
  {ProcJSON(ReviewCommentsPayload(req.threadsAfter, req.commentsAfter))} \cup FailingResults

\* ------------------------------------------- fetch_review_comments_graphql

\* lines 340-352 and 365-377: the normalised record of one comment
NormalisedComment(thread, comment) ==
  LET author_login == PyGetD(PyOr(PyGet(comment, "author"), JEmptyObj), "login", JStr("unknown"))
  IN JObj([path |-> PyGetD(thread, "path", JStr("unknown")),
           line |-> PyGet(thread, "line"),
           start_line |-> PyGet(thread, "startLine"),
           original_line |-> PyGet(thread, "line"),
           diff_hunk |-> PyGet(comment, "diffHunk"),
           user |-> JObj([login |-> author_login]),
           body |-> PyGetD(comment, "body", JStr("")),
           url |-> PyGet(comment, "url")])

\* lines 339-352 / 364-377: append every node of comment_nodes
AppendComments(rc, thread, comment_nodes) ==
  rc \o [j \in 1..Len(comment_nodes.a) |-> NormalisedComment(thread, comment_nodes.a[j])]

\* line 324
ThreadOfEdge(edge) == PyOr(PyGet(edge, "node"), JEmptyObj)
\* lines 336-337: always read from the thread's nested first page
NestedNodes(thread) == PyOr(PyGet(PyOr(PyGet(thread, "comments"), JEmptyObj), "nodes"), JEmptyArr)
NestedPageInfo(thread) == PyOr(PyGet(PyOr(PyGet(thread, "comments"), JEmptyObj), "pageInfo"), JEmptyObj)

\* lines 334-359: the top of one turn of the comment loop for the thread at
\* position i: append the nested page, then either leave the loop or stand
\* before the call of line 360 with comments_after set.
CommentLoopTop(edges, i, rc, ca) ==
  LET thread == ThreadOfEdge(edges.a[i])
      rc2 == AppendComments(rc, thread, NestedNodes(thread))
      info == NestedPageInfo(thread)
  IN IF ~Truthy(PyGet(info, "hasNextPage"))
     THEN [at |-> "break", idx |-> i, rc |-> rc2, ca |-> ca]
     ELSE [at |-> "comments", idx |-> i, rc |-> rc2, ca |-> PyGet(info, "endCursor")]

\* lines 323-380: walk the edges from position i until a comment page has
\* to be fetched or the page is used up.
RECURSIVE WalkEdges(_, _, _, _)
WalkEdges(edges, i, rc, ca) ==
  IF i > Len(edges.a) THEN [at |-> "page_end", idx |-> i, rc |-> rc, ca |-> ca]
  ELSE IF Truthy(PyGet(ThreadOfEdge(edges.a[i]), "isResolved")) THEN WalkEdges(edges, i + 1, rc, ca)
  ELSE LET top == CommentLoopTop(edges, i, rc, JNull) IN
       IF top.at = "break" THEN WalkEdges(edges, i + 1, top.rc, top.ca) ELSE top

\* line 385 with the cursor never advanced
NextThreadsAfter_Stale(cursor) == threads_after

\* line 385
NextThreadsAfter(cursor) == cursor

\* lines 382-387 with the has-next flag of the thread page ignored
Settle_IgnoresHasNext(w, has_next, cursor) ==
  /\ review_comments' = w.rc
  /\ idx' = w.idx
  /\ comments_after' = w.ca
  /\ IF w.at = "comments" THEN pc' = "comments" /\ threads_after' = threads_after
     ELSE pc' = "issues" /\ threads_after' = threads_after

\* lines 382-387, for a walk w that stopped: which call comes next
Settle(w, has_next, cursor) ==
  /\ review_comments' = w.rc
  /\ idx' = w.idx
  /\ comments_after' = w.ca
  /\ IF w.at = "comments" THEN pc' = "comments" /\ threads_after' = threads_after
     ELSE IF ~Truthy(has_next) THEN pc' = "issues" /\ threads_after' = threads_after
     ELSE pc' = "threads" /\ threads_after' = NextThreadsAfter(cursor)

Logged(fn, arg, out) ==
  Append(calls, [fn |-> fn, arg |-> arg, req |-> RequestOf(fn, arg),
                 kind |-> out.kind, error |-> out.error,
                 has_next |-> out.has_next, cursor |-> out.cursor])

\* The exception swallowed: the operation ends with what it has.
Raised_Swallowed(out) ==
  /\ pc' = "done"
  /\ error' = "none"
  /\ UNCHANGED <<review_comments, threads_after, threads, has_next_thread_page,
                 next_thread_cursor, idx, comments_after, issue_comments>>

\* An exception leaves the operation: nothing is returned.
Raised(out) ==
  /\ pc' = "raised"
  /\ error' = out.error
  /\ UNCHANGED <<review_comments, threads_after, threads, has_next_thread_page,
                 next_thread_cursor, idx, comments_after, issue_comments>>

\* line 319 and what follows it up to the next host call
FetchThreads ==
  /\ pc = "threads"
  /\ Len(calls) < MaxCalls
  /\ \E res \in ThreadsPageResults(threads_after) :
       LET out == FetchReviewThreadsPage(res) IN
       /\ calls' = Logged("threads", threads_after, out)
       /\ IF out.kind = "raise" THEN Raised(out)
          ELSE /\ threads' = out.items
               /\ has_next_thread_page' = out.has_next
               /\ next_thread_cursor' = out.cursor
               /\ Settle(WalkEdges(out.items, 1, review_comments, comments_after), out.has_next, out.cursor)
               /\ UNCHANGED <<issue_comments, error>>
  /\ UNCHANGED <<hostVars, prContexts, graphql_call, ciVars, fn_call, mainVars>>

\* line 360 and what follows it up to the next host call
FetchComments ==
  /\ pc = "comments"
  /\ Len(calls) < MaxCalls
  /\ \E res \in CommentsPageResults(comments_after) :
       LET out == FetchThreadCommentsPage(res) IN
       /\ calls' = Logged("comments", comments_after, out)
       /\ IF out.kind = "raise" THEN Raised(out)
          ELSE LET thread == ThreadOfEdge(threads.a[idx])
                   rc2 == AppendComments(review_comments, thread, out.items)
                   w == IF ~Truthy(out.has_next) THEN WalkEdges(threads, idx + 1, rc2, comments_after)
                        ELSE LET top == CommentLoopTop(threads, idx, rc2, comments_after) IN
                             IF top.at = "break"
                             THEN WalkEdges(threads, idx + 1, top.rc, top.ca) ELSE top
               IN /\ Settle(w, has_next_thread_page, next_thread_cursor)
                  /\ UNCHANGED <<threads, has_next_thread_page, next_thread_cursor,
                                 issue_comments, error>>
  /\ UNCHANGED <<hostVars, prContexts, graphql_call, ciVars, fn_call, mainVars>>

\* ------------------------------------------------------- fetch_pr_comments
\* Issue comments one REST answer may carry.
MaxIssueComments == 1

IssueComment(j) == JObj([user |-> JObj([login |-> JTok("login", 0, j)]), body |-> JTok("body", 0, j)])

\* The results the host may give fetch_api for the issue-comment list.
IssueCommentsResults ==
  {ProcJSON(JArr([j \in 1..n |-> IssueComment(j)])) : n \in 0..MaxIssueComments}
    \cup {ProcFailed, ProcGarbage}

\* fetch_api, from the process result on (lines 168-179)
FetchApi(res) ==
  IF res.status = "nonzero" THEN Raise("GitHubAPICallError")
  ELSE IF ~res.parses THEN Raise("GitHubJSONError")
  ELSE Return(res.payload, JNull, JNull)

\* lines 397-400
FetchIssues ==
  /\ pc = "issues"
  /\ \E res \in IssueCommentsResults :
       LET out == FetchApi(res) IN
       /\ calls' = Logged("issues", JNull, out)
       /\ IF out.kind = "raise" THEN Raised(out)
          ELSE /\ issue_comments' = out.items
               /\ pc' = "done"
               /\ UNCHANGED <<review_comments, threads_after, threads, has_next_thread_page,
                              next_thread_cursor, idx, comments_after, error>>
  /\ UNCHANGED <<hostVars, prContexts, graphql_call, ciVars, fn_call, mainVars>>

\* ------------------------------------------------- the host's check runs

NameA == JText(<<"a">>)
NameAB == JText(<<"a", ":", "b">>)
UrlC == JText(<<"c">>)
UrlBC == JText(<<"b", ":", "c">>)

\* run = 0: the check belongs to no workflow run.
HostContext(typename, conclusion, name, url, run) ==
  [typename |-> typename, conclusion |-> conclusion, name |-> name, url |-> url, run |-> run]

\* Workflow run ids the host hands out.
MaxRunId == 2

HostContexts ==
  {HostContext("CheckRun", "FAILURE", NameA, UrlC, r) : r \in 1..MaxRunId}
    \cup {HostContext("CheckRun", "FAILURE", NameAB, UrlC, 1),
          HostContext("CheckRun", "FAILURE", NameA, UrlBC, 0),
          HostContext("CheckRun", "FAILURE", NameAB, UrlC, 0),
          HostContext("CheckRun", "FAILURE", NameA, JNull, 0),
          HostContext("CheckRun", "FAILURE", JNull, UrlC, 0),
          HostContext("CheckRun", "SUCCESS", NameA, UrlC, 1),
          HostContext("StatusContext", "FAILURE", NameA, UrlC, 0)}

\* A context node of the query document (lines 89-109).
ContextNode(c) ==
  IF c.typename = "CheckRun"
  THEN JObj([__typename |-> JStr("CheckRun"),
             name |-> c.name,
             conclusion |-> JStr(c.conclusion),
             detailsUrl |-> c.url,
             databaseId |-> JNum(100),
             checkSuite |-> JObj([workflowRun |->
               IF c.run = 0 THEN JNull
               ELSE JObj([databaseId |-> JNum(c.run), url |-> JTok("wurl", c.run, 0)])])])
  ELSE JObj([__typename |-> JStr("StatusContext"),
             context |-> c.name,
             state |-> JStr(c.conclusion),
             targetUrl |-> c.url,
             description |-> JNull])

\* The envelope the host answers GRAPHQL_CI_FAILURES_QUERY with (lines 78-118).
CIFailuresPayload ==
  JObj([data |-> JObj([repository |-> JObj([pullRequest |-> JObj([commits |-> JObj([nodes |->
    JArr(<<JObj([commit |-> JObj([oid |-> JStr("oid"),
                  statusCheckRollup |-> JObj([state |-> JStr("FAILURE"),
                     contexts |-> JObj([nodes |->
                       JArr([j \in 1..Len(prContexts) |-> ContextNode(prContexts[j])])])])])])>>)])])])])])

\* ------------------------------------------------------ collect_ci_failures

\* What `gh run view --log-failed` can come back with: stdout on success,
\* stderr with a non-zero exit.
LogOk(text) == [ok |-> TRUE, text |-> text]
LogFailed(stderr) == [ok |-> FALSE, text |-> stderr]
HostLogs ==
  {EmptyText,
   << <<"ok">>, <<" ", "FAILED", " ", "ok">>, <<"ok">>, <<>> >>}
HostStderrs ==
  {EmptyText,
   << <<"boom">>, <<"Short Test Summary Info">>, <<"boom">>, <<>> >>}
LogResults == {LogOk(t) : t \in HostLogs} \cup {LogFailed(t) : t \in HostStderrs}

\* line 476: str() of the GitHubAPICallError fetch_ci_run_log raises
RunViewError(stderr) ==
  Concat(<< <<"gh run view", " ", "failed", ":", " ">> >>, stderr)

\* line 534
FetchFailedText(run_id, exc) ==
  Concat(<< <<"Failed", " ", "to fetch logs for run", " ">> \o PyStr(run_id) \o <<":", " ">> >>, exc)

\* line 536
NoRunIdText == << <<"No workflow run ID available to fetch logs.">> >>

\* line 522
RunName(run) == PyOr(PyGet(run, "name"), JText(<<"F", "a", "i", "l", "e", "d", " ", "c", "h", "e", "c", "k">>))

\* the key with the check's name in it even when the run id is known
DedupKey_WithName(run) ==
  PyStr(RunName(run)) \o <<":">> \o PyStr(PyGet(run, "workflow_run_id"))

\* line 524
DedupKey(run) ==
  IF PyGet(run, "workflow_run_id") # JNull
  THEN PyStr(PyGet(run, "workflow_run_id"))
  ELSE PyStr(RunName(run)) \o <<":">> \o PyStr(PyGet(run, "details_url"))

\* the failure of the log fetch answered with an empty log
RawLogOutput_Dropped(run_id, res) ==
  IF run_id = JNull THEN NoRunIdText
  ELSE IF res.ok THEN res.text
  ELSE EmptyText

\* lines 529-536 with the log asked for whether or not there is a run id
RawLogOutput_NoPlaceholder(run_id, res) ==
  IF res.ok THEN res.text
  ELSE FetchFailedText(run_id, RunViewError(res.text))

\* lines 529-536, res being what the log fetch came back with
RawLogOutput(run_id, res) ==
  IF run_id = JNull THEN NoRunIdText
  ELSE IF res.ok THEN res.text
  ELSE FetchFailedText(run_id, RunViewError(res.text))

\* lines 540-548
CIFailure(run, log_output) ==
  JObj([name |-> RunName(run),
        workflow_run_id |-> PyGet(run, "workflow_run_id"),
        details_url |-> PyGet(run, "details_url"),
        workflow_url |-> PyGet(run, "workflow_url"),
        log_output |-> JLog(log_output)])

\* line 519 / 550: the loop goes on or the list is returned
AfterRun(i) == IF i > Len(failed_runs'.a) THEN "done" ELSE "loop"

\* line 515
FetchFailedRuns ==
  /\ ci_pc = "runs"
  /\ \E res \in {ProcJSON(CIFailuresPayload)} \cup FailingResults :
       LET out == FetchFailedCIRuns(res) IN
       IF out.kind = "raise"
       THEN /\ ci_pc' = "raised"
            /\ ci_error' = out.error
            /\ UNCHANGED <<failed_runs, run_idx>>
       ELSE /\ failed_runs' = out.items
            /\ run_idx' = 1
            /\ ci_pc' = AfterRun(1)
            /\ UNCHANGED ci_error
  /\ UNCHANGED <<include_full_logs, ci_failures, seen_runs, log_calls>>
  /\ UNCHANGED <<hostVars, prContexts, aggVars, graphql_call, fn_call, mainVars>>

\* lines 519-548: one turn of the loop, with the log fetch it may make
CollectRun ==
  /\ ci_pc = "loop"
  /\ LET run == failed_runs.a[run_idx]
         run_id == PyGet(run, "workflow_run_id")
         dedup_key == DedupKey(run)
     IN IF dedup_key \in seen_runs
        THEN UNCHANGED <<ci_failures, seen_runs, log_calls>>
        ELSE /\ seen_runs' = seen_runs \cup {dedup_key}
             /\ \E res \in LogResults :
                  /\ log_calls' = IF run_id # JNull
                                  THEN Append(log_calls, [run_id |-> run_id, res |-> res])
                                  ELSE log_calls
                  /\ ci_failures' = Append(ci_failures,
                       CIFailure(run, SummarizeCiLog(RawLogOutput(run_id, res), include_full_logs)))
  /\ run_idx' = run_idx + 1
  /\ UNCHANGED <<failed_runs, include_full_logs, ci_error>>
  /\ ci_pc' = AfterRun(run_idx + 1)
  /\ UNCHANGED <<hostVars, prContexts, aggVars, graphql_call, fn_call, mainVars>>

\* ------------------------------------------- format_comments_as_markdown

\* The text of a str value.
TextOf(v) ==
  IF "l" \in DOMAIN v THEN v.l
  ELSE IF "c" \in DOMAIN v THEN <<v.c>>
  ELSE IF "t" \in DOMAIN v THEN << <<v.s>> \o Digits(v.t) \o Digits(v.i) >>
  ELSE IF v.s = "" THEN EmptyText ELSE << <<v.s>> >>

\* f"{v}"
Fmt(v) == IF v.k = "str" THEN TextOf(v) ELSE <<PyStr(v)>>

\* The character U+0060, and the fence of a code block.
Backquote == "U+0060"
Fence == <<Backquote, Backquote, Backquote>>

\* A string literal without whitespace to trim.
Lit(s) == << <<s>> >>

\* a + b + ... for a sequence of texts
RECURSIVE Cat(_)
Cat(texts) == IF Len(texts) = 1 THEN texts[1] ELSE Concat(texts[1], Cat(Tail(texts)))

\* "\n".join(output): the lines of every element, in order
RECURSIVE JoinOutput(_)
JoinOutput(output) == IF output = <<>> THEN <<>> ELSE output[1] \o JoinOutput(Tail(output))

\* v.strip() / v.rstrip(): the str, or the AttributeError of a value without the method
PyStrip(v) == IF v.k = "str" THEN JLog(Strip(TextOf(v))) ELSE IF IsExc(v) THEN v ELSE Exc("AttributeError")
PyRStrip(v) == IF v.k = "str" THEN JLog(RStrip(TextOf(v))) ELSE IF IsExc(v) THEN v ELSE Exc("AttributeError")

\* Characters in code-point order, for comparing strings.
Alphabet ==
  <<".", "/", "0", "1", "2", "3", "4", "5", "6", "7", "8", "9", "N", "_",
    "a", "b", "c", "d", "e", "k", "n", "o", "p", "u", "w", "y">>
Ord(ch) == CHOOSE j \in 1..Len(Alphabet) : Alphabet[j] = ch

\* a < b for two strings given by their characters
RECURSIVE StrLess(_, _)
StrLess(a, b) ==
  IF b = <<>> THEN FALSE
  ELSE IF a = <<>> THEN TRUE
  ELSE IF a[1] # b[1] THEN Ord(a[1]) < Ord(b[1])
  ELSE StrLess(Tail(a), Tail(b))

\* line 581: comment.get("path", "unknown")
FilePath(comment) == PyGetD(comment, "path", JText(<<"u", "n", "k", "n", "o", "w", "n">>))

\* lines 579-582: the keys of comments_by_file
FilePaths(reviews) == {FilePath(reviews.a[j]) : j \in 1..Len(reviews.a)}

\* line 584: sorted() compares the keys; two keys that are not both strings
\* cannot be compared
Sortable(paths) == Cardinality(paths) <= 1 \/ \A q \in paths : q.k = "str"

\* line 584: the keys in ascending order
RECURSIVE SortedPaths(_)
SortedPaths(paths) ==
  IF paths = {} THEN <<>>
  ELSE LET least == CHOOSE q \in paths : \A r \in paths \ {q} : StrLess(TextOf(q)[1], TextOf(r)[1])
       IN <<least>> \o SortedPaths(paths \ {least})

\* lines 579-582: the comments of one file, in arrival order
RECURSIVE FileComments(_, _)
FileComments(comments, file_path) ==
  IF comments = <<>> THEN <<>>
  ELSE (IF FilePath(comments[1]) = file_path THEN <<comments[1]>> ELSE <<>>)
         \o FileComments(Tail(comments), file_path)

\* the sort key without the fallback to original_line
SortKey_LineOnly(comment) ==
  LET key == PyOr(PyGet(comment, "line"), JNum(0)) IN key.n

\* line 586: c.get("line") or c.get("original_line") or 0
SortKey(comment) ==
  LET key == PyOr(PyOr(PyGet(comment, "line"), PyGet(comment, "original_line")), JNum(0)) IN key.n

\* a sort that puts an element before those of equal key
RECURSIVE InsertByKey_BeforeEquals(_, _)
InsertByKey_BeforeEquals(sorted, comment) ==
  IF sorted = <<>> THEN <<comment>>
  ELSE IF SortKey(sorted[Len(sorted)]) < SortKey(comment) THEN Append(sorted, comment)
  ELSE Append(InsertByKey_BeforeEquals(SubSeq(sorted, 1, Len(sorted) - 1), comment),
              sorted[Len(sorted)])

\* list.sort(key=...): stable, an element goes after those whose key is not greater
RECURSIVE InsertByKey(_, _)
InsertByKey(sorted, comment) ==
  IF sorted = <<>> THEN <<comment>>
  ELSE IF SortKey(sorted[Len(sorted)]) <= SortKey(comment) THEN Append(sorted, comment)
  ELSE Append(InsertByKey(SubSeq(sorted, 1, Len(sorted) - 1), comment), sorted[Len(sorted)])

RECURSIVE SortByKey(_)
SortByKey(comments) ==
  IF comments = <<>> THEN <<>>
  ELSE InsertByKey(SortByKey(SubSeq(comments, 1, Len(comments) - 1)), comments[Len(comments)])

\* lines 569-570 / 589-590: comment.get("user", {}).get("login", "unknown")
UserLogin(comment) ==
  PyGetD(PyGetD(comment, "user", JEmptyObj), "login", JText(<<"u", "n", "k", "n", "o", "w", "n">>))

\* lines 570 / 590: comment.get("body", "").strip()
BodyOf(comment) == PyStrip(PyGetD(comment, "body", JStr("")))

\* line 593: comment.get("diff_hunk", "").strip()
DiffHunkOf(comment) == PyStrip(PyGetD(comment, "diff_hunk", JStr("")))

\* the range header whenever start_line is known
LineRef_RangeWheneverStart(comment) ==
  LET line == PyGet(comment, "line")
      start_line == PyGet(comment, "start_line")
  IN IF Truthy(start_line) /\ Truthy(line)
     THEN Cat(<<Lit("**Lines "), Fmt(start_line), Lit("-"), Fmt(line), Lit("**")>>)
     ELSE IF Truthy(line) THEN Cat(<<Lit("**Line "), Fmt(line), Lit("**")>>)
     ELSE Lit("**Position in diff**")

\* lines 595-600
LineRef(comment) ==
  LET line == PyGet(comment, "line")
      start_line == PyGet(comment, "start_line")
  IN IF Truthy(start_line) /\ Truthy(line) /\ start_line # line
     THEN Cat(<<Lit("**Lines "), Fmt(start_line), Lit("-"), Fmt(line), Lit("**")>>)
     ELSE IF Truthy(line) THEN Cat(<<Lit("**Line "), Fmt(line), Lit("**")>>)
     ELSE Lit("**Position in diff**")

\* lines 569-574: what one issue comment appends to output
IssueCommentOutput(comment) ==
  <<Cat(<<Lit("### @"), Fmt(UserLogin(comment)), << <<>>, <<>> >> >>),
    TextOf(BodyOf(comment)),
    EmptyText>>

\* lines 589-612: what one review comment appends to output
ReviewCommentOutput(comment) ==
  <<Cat(<<Lit("#### "), LineRef(comment), Lit(" (@"), Fmt(UserLogin(comment)), Lit(")"), << <<>>, <<>> >> >>)>>
    \o (IF Truthy(DiffHunkOf(comment))
        THEN <<Lit("**Code context:**"), <<Fence \o <<"diff">> >>, TextOf(DiffHunkOf(comment)),
               <<Fence, <<>> >> >>
        ELSE <<>>)
    \o <<Lit("**Comment:**"), TextOf(BodyOf(comment)), EmptyText>>

\* a sequence of sequences, end to end
RECURSIVE Flatten(_)
Flatten(seqs) == IF seqs = <<>> THEN <<>> ELSE seqs[1] \o Flatten(Tail(seqs))

\* lines 584-612: what one file appends to output
FileOutput(reviews, file_path) ==
  LET file_comments == SortByKey(FileComments(reviews.a, file_path))
  IN << << <<>>, <<"### File: ", Backquote>> \o Fmt(file_path)[1] \o <<Backquote>>, <<>> >> >>
       \o Flatten([j \in 1..Len(file_comments) |-> ReviewCommentOutput(file_comments[j])])

\* what one CI failure would append if its header never told the run id
CIFailureOutput_NameOnly(failure) ==
  LET name == PyOr(PyGet(failure, "name"), JStr("Failed check"))
      details_url == PyGet(failure, "details_url")
      log_output == PyRStrip(PyOr(PyGet(failure, "log_output"), JStr("")))
  IN <<Concat(Lit("### "), Fmt(name))>>
       \o (IF Truthy(details_url)
           THEN <<Cat(<<Lit("[Details]("), Fmt(details_url), Lit(")")>>)>>
           ELSE <<>>)
       \o (IF Truthy(log_output)
           THEN <<<<Fence>>, TextOf(log_output), <<Fence, <<>> >> >>
           ELSE << << <<"_No logs available._">>, <<>> >> >>)

\* lines 616-632: what one CI failure appends to output
CIFailureOutput(failure) ==
  LET name == PyOr(PyGet(failure, "name"), JStr("Failed check"))
      run_id == PyGet(failure, "workflow_run_id")
      run_label == IF run_id # JNull
                   THEN Cat(<<Fmt(name), Lit(" (Run ID "), Fmt(run_id), Lit(")")>>)
                   ELSE Fmt(name)
      details_url == PyGet(failure, "details_url")
      log_output == PyRStrip(PyOr(PyGet(failure, "log_output"), JStr("")))
  IN <<Concat(Lit("### "), run_label)>>
       \o (IF Truthy(details_url)
           THEN <<Cat(<<Lit("[Details]("), Fmt(details_url), Lit(")")>>)>>
           ELSE <<>>)
       \o (IF Truthy(log_output)
           THEN <<<<Fence>>, TextOf(log_output), <<Fence, <<>> >> >>
           ELSE << << <<"_No logs available._">>, <<>> >> >>)

\* line 634
NothingToShow(reviews, issues, failures) ==
  ~Truthy(issues) /\ ~Truthy(reviews) /\ ~Truthy(failures)

\* The exception the fields of a comment raise while it is rendered, if any.
CommentError(comment) ==
  IF \E v \in {UserLogin(comment), BodyOf(comment)} : IsExc(v) THEN "AttributeError" ELSE "none"
ReviewCommentError(comment) ==
  IF \E v \in {UserLogin(comment), BodyOf(comment), DiffHunkOf(comment)} : IsExc(v)
  THEN "AttributeError" ELSE "none"

\* The exception that leaves format_comments_as_markdown, if any: the first
\* one met in the order of lines 566-632.
FormatError(reviews, issues) ==
  IF Truthy(issues)
       /\ \E j \in 1..Len(issues.a) : CommentError(issues.a[j]) # "none"
  THEN "AttributeError"
  ELSE IF ~Truthy(reviews) THEN "none"
  ELSE IF ~Sortable(FilePaths(reviews)) THEN "TypeError"
  ELSE IF \E j \in 1..Len(reviews.a) : ReviewCommentError(reviews.a[j]) # "none"
  THEN "AttributeError"
  ELSE "none"

\* format_comments_as_markdown
FormatCommentsAsMarkdown(reviews, issues, owner, repo, pr_number, failures) ==
  IF FormatError(reviews, issues) # "none"
  THEN [kind |-> "raise", error |-> FormatError(reviews, issues)]
  ELSE IF NothingToShow(reviews, issues, failures)
  THEN [kind |-> "return", value |-> << <<"No comments found on this PR.">>, <<>> >>]
  ELSE
    LET title == Cat(<<Lit("# PR Comments: "), owner, Lit("/"), repo, Lit("#"), pr_number,
                       << <<>>, <<>> >> >>)
        general ==
          IF Truthy(issues)
          THEN << << <<"## General PR Comments">>, <<>> >> >>
                 \o Flatten([j \in 1..Len(issues.a) |-> IssueCommentOutput(issues.a[j])])
          ELSE <<>>
        files == SortedPaths(FilePaths(reviews))
        inline ==
          IF Truthy(reviews)
          THEN << << <<"## Inline Code Review Comments">>, <<>> >> >>
                 \o Flatten([j \in 1..Len(files) |-> FileOutput(reviews, files[j])])
          ELSE <<>>
        ci ==
          IF Truthy(failures)
          THEN << << <<"## CI Failures">>, <<>> >> >>
                 \o Flatten([j \in 1..Len(failures.a) |-> CIFailureOutput(failures.a[j])])
          ELSE <<>>
    IN [kind |-> "return", value |-> JoinOutput(<<title>> \o general \o inline \o ci)]

\* ------------------------------------------------------------ parse_pr_path
\* A path is the sequence of its characters.

\* s.lstrip("/") and s.strip("/")
RECURSIVE LStripSlash(_)
LStripSlash(s) == IF s # <<>> /\ s[1] = "/" THEN LStripSlash(Tail(s)) ELSE s
RECURSIVE RStripSlash(_)
RStripSlash(s) ==
  IF s # <<>> /\ s[Len(s)] = "/" THEN RStripSlash(SubSeq(s, 1, Len(s) - 1)) ELSE s
StripSlash(s) == RStripSlash(LStripSlash(s))

\* s.split("/"): the pieces between the slashes, empty ones kept; the piece
\* being read is cur
RECURSIVE SplitFrom(_, _)
SplitFrom(s, cur) ==
  IF s = <<>> THEN <<cur>>
  ELSE IF s[1] = "/" THEN <<cur>> \o SplitFrom(Tail(s), <<>>)
  ELSE SplitFrom(Tail(s), Append(cur, s[1]))
SplitSlash(s) == SplitFrom(s, <<>>)

PullLiteral == <<"p", "u", "l", "l">>

\* parse_pr_path with the third part left unread
ParsePrPath_AnyThird(pr_path) ==
  LET parts == SplitSlash(StripSlash(pr_path)) IN
  IF Len(parts) = 4
  THEN [kind |-> "return", value |-> <<parts[1], parts[2], parts[4]>>]
  ELSE [kind |-> "raise", error |-> "ValueError"]

\* parse_pr_path (lines 135-147)
ParsePrPath(pr_path) ==
  LET parts == SplitSlash(StripSlash(pr_path)) IN
  IF Len(parts) = 4 /\ parts[3] = PullLiteral
  THEN [kind |-> "return", value |-> <<parts[1], parts[2], parts[4]>>]
  ELSE [kind |-> "raise", error |-> "ValueError"]

\* ------------------------------------------------------------- gh_pr_helper

\* What parser.print_help() writes.
HelpText == << <<"usage">> >>

\* line 678
UsageError == << <<>>, <<"Error: Provide either a PR path or --owner, --repo, and --pr">> >>

\* The messages the exception e of the call fn may carry (lines 145-147,
\* 177-179, 224-238, 285-304, 425-439); a failed command's message ends
\* with what the command wrote to its standard error.
ErrorMessages(fn, e) ==
  CASE e = "ValueError" ->
         {Cat(<<Lit("Invalid PR path format: '"), <<argv.pr_path.c>>,
                Lit("'. Expected format: 'owner/repo/pull/number'")>>)}
    [] e = "GitHubAPICallError" ->
         {Concat(Lit(IF fn = "issues" THEN "gh API call failed: "
                     ELSE "gh GraphQL API call failed: "), stderr) : stderr \in HostStderrs}
    [] e = "GitHubJSONError" ->
         {Lit(IF fn = "issues"
              THEN "Failed to parse JSON response: Expecting value: line 1 column 1 (char 0)"
              ELSE "Failed to parse GraphQL response: Expecting value: line 1 column 1 (char 0)")}
    [] e = "GitHubGraphQLError" -> {Lit("GraphQL query returned errors: [{'message': 'x'}]")}
    [] e = "GitHubResponseError" ->
         {Lit(CASE fn = "threads" -> "Unexpected GraphQL response format when fetching review threads"
                [] fn = "comments" -> "Unexpected GraphQL response format when fetching thread comments"
                [] OTHER -> "Unexpected GraphQL response format when fetching CI failures")}

\* lines 695-700 with the except clauses for the call failure and the
\* path error only
Handled_CallErrorsOnly(e) == e \in {"GitHubAPICallError", "ValueError"}

\* lines 695-700: except ValueError, except GitHubAPIError
Handled(e) == e \in GitHubAPIErrors \cup {"ValueError"}

\* lines 696-697 / 699-700
ErrorExit(message) ==
  /\ sys_stderr' = Append(sys_stderr, Concat(Lit("Error: "), message))
  /\ exit_status' = "1"
  /\ main_pc' = "exited"
  /\ UNCHANGED sys_stdout

\* The exception e of the call fn leaves the try block: it is handled, or
\* it leaves gh_pr_helper.
Leave(fn, e) ==
  IF Handled(e)
  THEN \E message \in ErrorMessages(fn, e) : ErrorExit(message)
  ELSE /\ exit_status' = e
       /\ main_pc' = "exited"
       /\ UNCHANGED <<sys_stdout, sys_stderr>>

\* line 681 is reached with owner, repo and pr_number
CallFetchPrComments(owner, repo, pr_number) ==
  /\ pr_target' = [owner |-> owner, repo |-> repo, pr_number |-> pr_number]
  /\ main_pc' = "comments"
  /\ pc' = "threads"
  /\ UNCHANGED <<sys_stdout, sys_stderr, exit_status>>

\* lines 669-681: the target of the run
MainArgs ==
  /\ main_pc = "args"
  /\ IF Truthy(argv.pr_path)
     THEN LET out == ParsePrPath(argv.pr_path.c) IN
          IF out.kind = "raise"
          THEN Leave("parse", out.error) /\ UNCHANGED <<pr_target, pc>>
          ELSE CallFetchPrComments(out.value[1], out.value[2], out.value[3])
     ELSE IF Truthy(argv.owner) /\ Truthy(argv.repo) /\ Truthy(argv.pr_number)
     THEN CallFetchPrComments(argv.owner.c, argv.repo.c, argv.pr_number.c)
     ELSE /\ sys_stdout' = Append(sys_stdout, HelpText)
          /\ sys_stderr' = Append(sys_stderr, UsageError)
          /\ exit_status' = "1"
          /\ main_pc' = "exited"
          /\ UNCHANGED <<pr_target, pc>>
  /\ UNCHANGED <<review_comments, threads_after, threads, has_next_thread_page,
                 next_thread_cursor, idx, comments_after, issue_comments, error, calls>>
  /\ UNCHANGED <<hostVars, prContexts, graphql_call, ciVars, fn_call, argv>>

\* lines 681-684: fetch_pr_comments has ended
MainComments ==
  /\ main_pc = "comments"
  /\ pc \in {"done", "raised"}
  /\ IF pc = "raised"
     THEN Leave(calls[Len(calls)].fn, error) /\ UNCHANGED <<ci_pc, include_full_logs>>
     ELSE /\ main_pc' = "ci"
          /\ ci_pc' = "runs"
          /\ include_full_logs' = argv.all_ci_failure_log
          /\ UNCHANGED <<sys_stdout, sys_stderr, exit_status>>
  /\ UNCHANGED <<failed_runs, run_idx, ci_failures, seen_runs, ci_error, log_calls>>
  /\ UNCHANGED <<hostVars, prContexts, aggVars, graphql_call, fn_call, argv, pr_target>>

\* lines 682-693: collect_ci_failures has ended; the document is rendered
\* and printed
MainRender ==
  /\ main_pc = "ci"
  /\ ci_pc \in {"done", "raised"}
  /\ IF ci_pc = "raised" THEN Leave("ci", ci_error)
     ELSE LET out == FormatCommentsAsMarkdown(JArr(review_comments), issue_comments,
                       <<pr_target.owner>>, <<pr_target.repo>>, <<pr_target.pr_number>>,
                       JArr(ci_failures))
          IN IF out.kind = "raise" THEN Leave("format", out.error)
             ELSE /\ sys_stdout' = Append(sys_stdout, out.value)
                  /\ exit_status' = "0"
                  /\ main_pc' = "exited"
                  /\ UNCHANGED sys_stderr
  /\ UNCHANGED <<hostVars, prContexts, aggVars, ciVars, graphql_call, fn_call, argv, pr_target>>

\* -------------------------------------------- one GraphQL call on its own

Pending == [kind |-> "pending", error |-> "none", items |-> JNull, has_next |-> JNull, cursor |-> JNull]

GraphQLCalls == {"threads", "comments", "ci"}

\* The key below pullRequest each call reads.
ConnectionKey(fn) == IF fn = "ci" THEN "commits" ELSE "reviewThreads"

\* v placed d keys deep on the path data.repository.pullRequest.<connection>
Nest(d, fn, v) ==
  CASE d = 0 -> v
    [] d = 1 -> JObj([data |-> v])
    [] d = 2 -> JObj([data |-> JObj([repository |-> v])])
    [] d = 3 -> JObj([data |-> JObj([repository |-> JObj([pullRequest |-> v])])])
    [] d = 4 -> JObj([data |-> JObj([repository |-> JObj([pullRequest |->
                  JObj(ConnectionKey(fn) :> v)])])])

WellFormed(fn) ==
  IF fn = "ci" THEN CIFailuresPayload ELSE ReviewCommentsPayload(JNull, JNull)

JSONAtoms ==
  {JNull, JNum(0), JNum(7), JBool(TRUE), JBool(FALSE), JStr(""), JStr("errors"), JStr("x"),
   JEmptyArr, JArr(<<JStr("errors")>>), JArr(<<JNull>>), JEmptyObj}

ErrorsValues ==
  {JNull, JEmptyArr, JArr(<<JObj([message |-> JStr("x")])>>), JStr("x"), JEmptyObj, JNum(0)}

\* Connections whose optional leaves are missing, null or of another type.
OddConnections ==
  {JObj([edges |-> JNull, pageInfo |-> JNull, nodes |-> JNull]),
   JObj([edges |-> JEmptyArr, pageInfo |-> JArr(<<JNum(7)>>), nodes |-> JEmptyArr]),
   JObj([edges |-> JArr(<<JNull>>), nodes |-> JArr(<<JNull>>)]),
   JObj([edges |-> JArr(<<JEmptyObj>>), nodes |-> JArr(<<JEmptyObj>>)]),
   JObj([edges |-> JArr(<<JObj([node |-> JNull])>>), nodes |-> JArr(<<JObj([commit |-> JNull])>>)]),
   JObj([edges |-> JNum(7), nodes |-> JNum(7)]),
   JObj([pageInfo |-> JObj([hasNextPage |-> JBool(TRUE)])])}

\* The JSON values a call is tried on.
CallPayloads(fn) ==
  JSONAtoms
    \cup {Nest(d, fn, v) : d \in 1..4, v \in {JNull, JNum(7), JStr("x"), JEmptyArr, JEmptyObj}}
    \cup {Nest(4, fn, v) : v \in OddConnections}
    \cup {JObj([errors |-> e]) : e \in ErrorsValues}
    \cup {JObj([errors |-> e, data |-> JNull]) : e \in ErrorsValues}
    \cup {JObj([errors |-> e, data |-> WellFormed(fn).o.data]) : e \in ErrorsValues}
    \cup {WellFormed(fn)}

CallResults(fn) == {ProcFailed, ProcGarbage} \cup {ProcJSON(v) : v \in CallPayloads(fn)}

CallReviewThreadsPage ==
  /\ graphql_call.fn = "threads" /\ graphql_call.out = Pending
  /\ graphql_call' = [graphql_call EXCEPT !.out = FetchReviewThreadsPage(graphql_call.res)]
  /\ UNCHANGED <<hostVars, aggVars, prContexts, ciVars, fn_call, mainVars>>

CallThreadCommentsPage ==
  /\ graphql_call.fn = "comments" /\ graphql_call.out = Pending
  /\ graphql_call' = [graphql_call EXCEPT !.out = FetchThreadCommentsPage(graphql_call.res)]
  /\ UNCHANGED <<hostVars, aggVars, prContexts, ciVars, fn_call, mainVars>>

CallFailedCIRuns ==
  /\ graphql_call.fn = "ci" /\ graphql_call.out = Pending
  /\ graphql_call' = [graphql_call EXCEPT !.out = FetchFailedCIRuns(graphql_call.res)]
  /\ UNCHANGED <<hostVars, aggVars, prContexts, ciVars, fn_call, mainVars>>

\* ------------------------------------------------------- specifications

AggIdle ==
  /\ pc = "threads"
  /\ review_comments = <<>>
  /\ threads_after = JNull
  /\ threads = JEmptyArr
  /\ has_next_thread_page = JNull
  /\ next_thread_cursor = JNull
  /\ idx = 0
  /\ comments_after = JNull
  /\ issue_comments = JNull
  /\ error = "none"
  /\ calls = <<>>

CallIdle == graphql_call = [fn |-> "none", res |-> ProcFailed, out |-> Pending]

FnIdle == fn_call = [fn |-> "none", args |-> <<>>, out |-> Pending]

NoArgs ==
  [pr_path |-> JNull, owner |-> JNull, repo |-> JNull, pr_number |-> JNull,
   all_ci_failure_log |-> FALSE]
NoTarget == [owner |-> <<>>, repo |-> <<>>, pr_number |-> <<>>]

MainIdle ==
  /\ main_pc = "idle"
  /\ argv = NoArgs
  /\ pr_target = NoTarget
  /\ sys_stdout = <<>>
  /\ sys_stderr = <<>>
  /\ exit_status = "none"

CIIdle ==
  /\ ci_pc = "idle"
  /\ include_full_logs = FALSE
  /\ failed_runs = JEmptyArr
  /\ run_idx = 0
  /\ ci_failures = <<>>
  /\ seen_runs = {}
  /\ ci_error = "none"
  /\ log_calls = <<>>

\* fetch_pr_comments against every pull request within the bounds
Init ==
  /\ prThreads \in HostPRs
  /\ cursorMode \in {"offset", "scoped"}
  /\ prContexts = <<>>
  /\ AggIdle
  /\ CallIdle
  /\ CIIdle
  /\ FnIdle
  /\ MainIdle

Next == FetchThreads \/ FetchComments \/ FetchIssues

Spec == Init /\ [][Next]_vars

\* each GraphQL call against every process result within the bounds
CallInit ==
  /\ prThreads = <<[resolved |-> FALSE, ncomments |-> 2]>>
  /\ cursorMode = "offset"
  /\ prContexts = <<HostContext("CheckRun", "FAILURE", NameA, UrlC, 1)>>
  /\ AggIdle
  /\ CIIdle
  /\ FnIdle
  /\ MainIdle
  /\ \E fn \in GraphQLCalls : \E res \in CallResults(fn) :
       graphql_call = [fn |-> fn, res |-> res, out |-> Pending]

CallNext == CallReviewThreadsPage \/ CallThreadCommentsPage \/ CallFailedCIRuns

CallSpec == CallInit /\ [][CallNext]_vars

\* Contexts of the latest commit on the host.
MaxContexts == 3

\* collect_ci_failures against every list of contexts within the bounds
CIInit ==
  /\ prThreads = <<>>
  /\ cursorMode = "offset"
  /\ prContexts \in UNION {[1..n -> HostContexts] : n \in 0..MaxContexts}
  /\ AggIdle
  /\ CallIdle
  /\ FnIdle
  /\ MainIdle
  /\ ci_pc = "runs"
  /\ include_full_logs \in BOOLEAN
  /\ failed_runs = JEmptyArr
  /\ run_idx = 0
  /\ ci_failures = <<>>
  /\ seen_runs = {}
  /\ ci_error = "none"
  /\ log_calls = <<>>

CINext == FetchFailedRuns \/ CollectRun

CISpec == CIInit /\ [][CINext]_vars

\* Pull requests, contexts and arguments gh_pr_helper is run with.
MainPRs ==
  {<<>>, <<[resolved |-> FALSE, ncomments |-> 2]>>,
   <<[resolved |-> FALSE, ncomments |-> 1], [resolved |-> TRUE, ncomments |-> 1]>>}
MainContexts == {<<>>, <<HostContext("CheckRun", "FAILURE", NameA, UrlC, 1)>>}
MainArgvs ==
  {[pr_path |-> path, owner |-> opt, repo |-> opt, pr_number |-> opt, all_ci_failure_log |-> full] :
     path \in {JNull, JText(<<"o", "/", "r", "/", "p", "u", "l", "l", "/", "7">>),
               JText(<<"o", "/", "r", "/", "7">>)},
     opt \in {JNull, JText(<<"7">>)},
     full \in BOOLEAN}

\* gh_pr_helper from its arguments to its exit
MainInit ==
  /\ prThreads \in MainPRs
  /\ cursorMode = "offset"
  /\ prContexts \in MainContexts
  /\ pc = "idle"
  /\ review_comments = <<>>
  /\ threads_after = JNull
  /\ threads = JEmptyArr
  /\ has_next_thread_page = JNull
  /\ next_thread_cursor = JNull
  /\ idx = 0
  /\ comments_after = JNull
  /\ issue_comments = JNull
  /\ error = "none"
  /\ calls = <<>>
  /\ CallIdle
  /\ CIIdle
  /\ FnIdle
  /\ main_pc = "args"
  /\ argv \in MainArgvs
  /\ pr_target = NoTarget
  /\ sys_stdout = <<>>
  /\ sys_stderr = <<>>
  /\ exit_status = "none"

MainNext ==
  \/ MainArgs \/ FetchThreads \/ FetchComments \/ FetchIssues \/ MainComments
  \/ FetchFailedRuns \/ CollectRun \/ MainRender

MainSpec == MainInit /\ [][MainNext]_vars

\* ------------------------------------------- one function call on its own

\* What a function left with.
FnReturn(v) == [kind |-> "return", value |-> v]
FnRaise(e) == [kind |-> "raise", error |-> e]

\* Lines a log is made of: plain, holding "failed" in upper case, the
\* summary marker in mixed case, empty, blank, plain with trailing blank.
LogLines ==
  {<<"ok">>, <<" ", "FAILED", " ", "ok">>, <<"Short Test Summary Info">>,
   <<>>, <<" ">>, <<"ok", " ">>}

\* Lines of a log after its numbered head.
MaxLogLines == 3

\* k numbered lines, none of them holding a marker
NumberedLines(k) == [i \in 1..k |-> <<"l">> \o Digits(i)]

\* Logs around the TailLines limit: a numbered head of no line or of about
\* TailLines lines, then up to MaxLogLines lines of every kind.
Logs ==
  {NumberedLines(k) \o tail :
     k \in {0, TailLines - 1, TailLines, TailLines + 1},
     tail \in UNION {[1..n -> LogLines] : n \in 1..MaxLogLines}}

\* _summarize_ci_log(log_output, include_full_log)
CallSummarizeCiLog ==
  /\ fn_call.fn = "summarize" /\ fn_call.out = Pending
  /\ fn_call' = [fn_call EXCEPT !.out = FnReturn(SummarizeCiLog(fn_call.args[1], fn_call.args[2]))]
  /\ UNCHANGED <<hostVars, aggVars, prContexts, ciVars, graphql_call, mainVars>>

\* _summarize_ci_log(summary, False), where summary is what the call
\* without full logs returned
SummarizeAgain ==
  /\ fn_call.fn = "summarize" /\ fn_call.out # Pending /\ ~fn_call.args[2]
  /\ fn_call' = [fn |-> "resummarize",
                 args |-> <<fn_call.out.value, FALSE>>,
                 out |-> FnReturn(SummarizeCiLog(fn_call.out.value, FALSE))]
  /\ UNCHANGED <<hostVars, aggVars, prContexts, ciVars, graphql_call, mainVars>>

\* _summarize_ci_log against every log within the bounds
SummarizeInit ==
  /\ prThreads = <<>>
  /\ cursorMode = "offset"
  /\ prContexts = <<>>
  /\ AggIdle
  /\ CallIdle
  /\ CIIdle
  /\ MainIdle
  /\ \E log_output \in Logs : \E include_full_log \in BOOLEAN :
       fn_call = [fn |-> "summarize", args |-> <<log_output, include_full_log>>, out |-> Pending]

SummarizeNext == CallSummarizeCiLog \/ SummarizeAgain

SummarizeSpec == SummarizeInit /\ [][SummarizeNext]_vars

\* Review comments the formatter is tried on, one per arrival position n:
\* the record of the aggregator (lines 340-352) with the path, the line
\* numbers and the diff hunk given.  The body tells the position.
ReviewCommentArg(shape, n) ==
  JObj([path |-> shape.path,
        line |-> shape.line,
        start_line |-> shape.start_line,
        original_line |-> shape.original_line,
        diff_hunk |-> shape.diff_hunk,
        user |-> JObj([login |-> JText(<<"u">>)]),
        body |-> JLog(<< <<" ", "body">> \o Digits(n), <<>> >>),
        url |-> JNull])

PathA == JText(<<"a">>)
PathAPy == JText(<<"a", ".", "p", "y">>)
PathBPy == JText(<<"b", ".", "p", "y">>)
HunkText == JLog(<< <<" ">>, <<"@@", " ", "hunk">>, <<"+", "ok", " ">>, <<>> >>)

\* a line; a range; a start equal to the line, an empty hunk; no line but
\* an original line; neither line, a start all the same, a blank hunk; a
\* path that is a prefix of another; a hunk without value.
ReviewShapes ==
  {[path |-> PathBPy, line |-> JNum(2), original_line |-> JNum(2), start_line |-> JNull, diff_hunk |-> HunkText],
   [path |-> PathAPy, line |-> JNum(2), original_line |-> JNum(2), start_line |-> JNum(1), diff_hunk |-> HunkText],
   [path |-> PathAPy, line |-> JNum(1), original_line |-> JNum(1), start_line |-> JNum(1), diff_hunk |-> JStr("")],
   [path |-> PathAPy, line |-> JNull, original_line |-> JNum(2), start_line |-> JNull, diff_hunk |-> HunkText],
   [path |-> PathAPy, line |-> JNull, original_line |-> JNull, start_line |-> JNum(1), diff_hunk |-> JLog(<< <<" ">>, <<>> >>)],
   [path |-> PathA, line |-> JNum(3), original_line |-> JNum(3), start_line |-> JNull, diff_hunk |-> HunkText],
   [path |-> PathBPy, line |-> JNum(1), original_line |-> JNum(1), start_line |-> JNull, diff_hunk |-> JNull]}

\* Review comments handed to the formatter in one call.
MaxReviewComments == 3

ReviewArgs ==
  {JArr([j \in 1..Len(shapes) |-> ReviewCommentArg(shapes[j], j)]) :
     shapes \in UNION {[1..n -> ReviewShapes] : n \in 0..MaxReviewComments}}

\* Issue comments as the REST API lists them; one lacks its user.
IssueArgs ==
  {JEmptyArr,
   JArr(<<JObj([user |-> JObj([login |-> JText(<<"u">>)]), body |-> JLog(<< <<"ok", " ">>, <<>> >>)])>>),
   JArr(<<JObj([body |-> JLog(<< <<"ok">> >>)]),
          JObj([user |-> JObj([login |-> JText(<<"u">>)]), body |-> JLog(<< <<"ok", " ">>, <<>> >>)])>>)}

\* CI failures as collect_ci_failures builds them (lines 540-548), or None.
CIFailureArgs ==
  {JNull,
   JEmptyArr,
   JArr(<<JObj([name |-> NameA, workflow_run_id |-> JNum(1), details_url |-> UrlC,
                workflow_url |-> JTok("wurl", 1, 0),
                log_output |-> JLog(<< <<" ", "FAILED", " ", "ok">>, <<>> >>)])>>),
   JArr(<<JObj([name |-> JNull, workflow_run_id |-> JNull, details_url |-> JNull,
                workflow_url |-> JNull, log_output |-> JLog(EmptyText)]),
          JObj([name |-> NameA, workflow_run_id |-> JNum(1), details_url |-> UrlC,
                workflow_url |-> JTok("wurl", 1, 0),
                log_output |-> JLog(<< <<" ", "FAILED", " ", "ok">>, <<>> >>)])>>)}

\* format_comments_as_markdown(review_comments, issue_comments, owner, repo,
\* pr_number, ci_failures)
CallFormatCommentsAsMarkdown ==
  /\ fn_call.fn = "format" /\ fn_call.out = Pending
  /\ fn_call' = [fn_call EXCEPT !.out =
       FormatCommentsAsMarkdown(fn_call.args[1], fn_call.args[2], fn_call.args[3],
                                fn_call.args[4], fn_call.args[5], fn_call.args[6])]
  /\ UNCHANGED <<hostVars, aggVars, prContexts, ciVars, graphql_call, mainVars>>

\* format_comments_as_markdown against every argument list within the bounds
FormatInit ==
  /\ prThreads = <<>>
  /\ cursorMode = "offset"
  /\ prContexts = <<>>
  /\ AggIdle
  /\ CallIdle
  /\ CIIdle
  /\ MainIdle
  /\ \E reviews \in ReviewArgs : \E issues \in IssueArgs : \E failures \in CIFailureArgs :
       fn_call = [fn |-> "format",
                  args |-> <<reviews, issues, Lit("o"), Lit("r"), Lit("7"), failures>>,
                  out |-> Pending]

FormatNext == CallFormatCommentsAsMarkdown

FormatSpec == FormatInit /\ [][FormatNext]_vars

\* Pieces a path is put together from.
PathPieces ==
  {<<>>, <<"o">>, <<"7">>, PullLiteral, <<"p", "u", "l">>, <<"P", "u", "l", "l">>}

\* Pieces of a path, and slashes before and after them.
MaxPieces == 5
MaxSlashes == 1

\* pieces[1] / pieces[2] / ...
RECURSIVE JoinSlash(_)
JoinSlash(pieces) ==
  IF Len(pieces) = 1 THEN pieces[1] ELSE pieces[1] \o <<"/">> \o JoinSlash(Tail(pieces))

Slashes(n) == [j \in 1..n |-> "/"]

PrPaths ==
  {Slashes(lead) \o JoinSlash(pieces) \o Slashes(trail) :
     lead \in 0..MaxSlashes, trail \in 0..MaxSlashes,
     pieces \in UNION {[1..n -> PathPieces] : n \in 1..MaxPieces}}

\* parse_pr_path(pr_path)
CallParsePrPath ==
  /\ fn_call.fn = "parse" /\ fn_call.out = Pending
  /\ fn_call' = [fn_call EXCEPT !.out = ParsePrPath(fn_call.args[1])]
  /\ UNCHANGED <<hostVars, aggVars, prContexts, ciVars, graphql_call, mainVars>>

\* parse_pr_path against every path within the bounds
ParseInit ==
  /\ prThreads = <<>>
  /\ cursorMode = "offset"
  /\ prContexts = <<>>
  /\ AggIdle
  /\ CallIdle
  /\ CIIdle
  /\ MainIdle
  /\ \E pr_path \in PrPaths :
       fn_call = [fn |-> "parse", args |-> <<pr_path>>, out |-> Pending]

ParseNext == CallParsePrPath

ParseSpec == ParseInit /\ [][ParseNext]_vars

\* -------------------------------------------------- determine_target_branch
\* A branch name is a string. An optional value is None or <<v>>.
None == <<>>

\* lines 83, 93 and 97: Python's truth of an optional string or list, which
\* is false for None and for the empty one
IsSet(opt, empty) == opt # None /\ opt[1] # empty

\* (branch_name, should_create)
BranchResult(branch_name, should_create) ==
  [kind |-> "return", value |-> <<branch_name, should_create>>]

\* current_branch in linked_branches
InList(branch, list) == \E j \in 1..Len(list) : list[j] = branch

\* determine_target_branch without its third case: a linked branch is
\* always the first one
DetermineTargetBranch_FirstLinked(issue_number, current_branch, config, linked_branches) ==
  IF IsSet(config.existing_branch, "")
  THEN BranchResult(config.existing_branch[1], FALSE)
  ELSE IF config.use_new_branch
  THEN BranchResult("", TRUE)
  ELSE IF IsSet(linked_branches, <<>>)
  THEN BranchResult(linked_branches[1][1], FALSE)
  ELSE BranchResult("", TRUE)

\* determine_target_branch
DetermineTargetBranch(issue_number, current_branch, config, linked_branches) ==
  IF IsSet(config.existing_branch, "")
  THEN BranchResult(config.existing_branch[1], FALSE)
  ELSE IF config.use_new_branch
  THEN BranchResult("", TRUE)
  ELSE IF IsSet(linked_branches, <<>>) /\ InList(current_branch, linked_branches[1])
  THEN BranchResult(current_branch, FALSE)
  ELSE IF IsSet(linked_branches, <<>>)
  THEN BranchResult(linked_branches[1][1], FALSE)
  ELSE BranchResult("", TRUE)

\* Branches of the repository.
BranchNames == {"main", "b1", "b2"}

\* Branches linked to one issue.
MaxLinked == 2

\* The existing_branch and use_new_branch of an IssueWorkflowConfig; an
\* --existingbranch given empty is the empty string.
BranchConfigs ==
  [existing_branch : {None, <<"">>} \cup {<<b>> : b \in BranchNames},
   use_new_branch : BOOLEAN]

\* linked_branches: None, or the list get_issue_linked_branches returns
LinkedBranches ==
  {None} \cup {<<list>> : list \in UNION {[1..n -> BranchNames] : n \in 0..MaxLinked}}

\* determine_target_branch(issue_number, current_branch, config, linked_branches)
CallDetermineTargetBranch ==
  /\ fn_call.fn = "branch" /\ fn_call.out = Pending
  /\ fn_call' = [fn_call EXCEPT !.out =
       DetermineTargetBranch(fn_call.args[1], fn_call.args[2], fn_call.args[3],
                             fn_call.args[4])]
  /\ UNCHANGED <<hostVars, aggVars, prContexts, ciVars, graphql_call, mainVars>>

\* determine_target_branch against every input within the bounds
BranchInit ==
  /\ prThreads = <<>>
  /\ cursorMode = "offset"
  /\ prContexts = <<>>
  /\ AggIdle
  /\ CallIdle
  /\ CIIdle
  /\ MainIdle
  /\ \E current_branch \in BranchNames, config \in BranchConfigs,
        linked_branches \in LinkedBranches :
       fn_call = [fn |-> "branch",
                  args |-> <<"42", current_branch, config, linked_branches>>,
                  out |-> Pending]

BranchNext == CallDetermineTargetBranch

BranchSpec == BranchInit /\ [][BranchNext]_vars

\* ------------------------------------------------------------- properties
\* fetch_review_comments_graphql has returned its list to fetch_pr_comments.
AggReturned ==
  \/ pc \in {"issues", "done"}
  \/ pc = "raised" /\ calls[Len(calls)].fn = "issues"

CallsOf(fn) == SelectSeq(calls, LAMBDA c : c.fn = fn)

\* The host thread that holds the comment of an aggregated record, and the
\* comment's position in it.
HolderOf(rec) == rec.o.body.t
PositionOf(rec) == rec.o.body.i

\* C1: the returned list holds no comment of a thread whose isResolved flag
\* is true on the host.
C1_ResolvedContributeNothing ==
  AggReturned =>
    \A j \in 1..Len(review_comments) : ~prThreads[HolderOf(review_comments[j])].resolved

\* C2: the first thread-page call carries no cursor; after a thread page
\* with has_next = true and cursor c the next thread-page call carries
\* exactly c; after a thread page with has_next = false there is none.
C2_ThreadCursorThreaded ==
  LET tc == CallsOf("threads") IN
  /\ Len(tc) > 0 => tc[1].arg = JNull
  /\ \A j \in 1..(Len(tc) - 1) :
       /\ tc[j].kind = "return"
       /\ Truthy(tc[j].has_next)
       /\ tc[j + 1].arg = tc[j].cursor

C2_Witness ==
  LET tc == CallsOf("threads") IN
  /\ Len(tc) >= 2
  /\ tc[2].arg = JTok("tcur", 0, ThreadPageSize)
  /\ tc[2].kind = "return" /\ ~Truthy(tc[2].has_next)
  /\ AggReturned

\* Thread pages the host holds, and what they hold.
NPages == IF Len(prThreads) = 0 THEN 1 ELSE (Len(prThreads) + ThreadPageSize - 1) \div ThreadPageSize
NoCommentPagination ==
  \A t \in 1..Len(prThreads) :
    ~prThreads[t].resolved => prThreads[t].ncomments <= CommentPageSize
RECURSIVE UnresolvedFrom(_)
UnresolvedFrom(t) ==
  IF t > Len(prThreads) THEN <<>>
  ELSE (IF prThreads[t].resolved THEN <<>>
        ELSE [i \in 1..prThreads[t].ncomments |-> <<t, i>>]) \o UnresolvedFrom(t + 1)
Aggregated == [j \in 1..Len(review_comments) |->
                 <<HolderOf(review_comments[j]), PositionOf(review_comments[j])>>]

\* C3: with N thread pages on the host and no unresolved thread needing
\* comment pagination, the aggregation makes exactly N thread-page calls, no
\* comment-page call, and returns the nested comments of the unresolved
\* threads of all pages in page order.
C3_ThreadPagesExhaustive ==
  (AggReturned /\ NoCommentPagination) =>
    /\ Len(CallsOf("threads")) = NPages
    /\ Len(CallsOf("comments")) = 0
    /\ Aggregated = UnresolvedFrom(1)
    /\ \A j \in 1..Len(review_comments) :
         review_comments[j].o.path = JTok("path", HolderOf(review_comments[j]), 0)

C3_Witness ==
  /\ AggReturned /\ NoCommentPagination
  /\ NPages >= 2
  /\ Len(review_comments) >= 2
  /\ HolderOf(review_comments[1]) # HolderOf(review_comments[Len(review_comments)])
  /\ \E t \in 1..Len(prThreads) : prThreads[t].resolved /\ prThreads[t].ncomments > 0

\* C4: the cursor of every thread-comment-page call is the thread's
\* accumulating cursor: the endCursor of the nested first page for the
\* thread's first call, the cursor the preceding comment page returned for
\* every later one; a comment page with has_next = true is followed by
\* another comment-page call.
C4_CommentCursorAccumulates ==
  LET last == calls[Len(calls)] IN
  /\ pc = "comments" =>
       IF last.fn = "comments" /\ Truthy(last.has_next)
       THEN comments_after = last.cursor
       ELSE comments_after = PyGet(NestedPageInfo(ThreadOfEdge(threads.a[idx])), "endCursor")
  /\ (calls # <<>> /\ last.fn = "comments" /\ last.kind = "return" /\ Truthy(last.has_next))
       => pc = "comments"

\* C5: every comment of an unresolved thread, of its nested first page and
\* of every later page, is in the aggregated list exactly once.
C5_EachCommentExactlyOnce ==
  /\ \A i, j \in 1..Len(review_comments) : i # j => Aggregated[i] # Aggregated[j]
  /\ AggReturned =>
       \A t \in 1..Len(prThreads) :
         ~prThreads[t].resolved =>
           \A i \in 1..prThreads[t].ncomments :
             \E j \in 1..Len(review_comments) : Aggregated[j] = <<t, i>>

\* C8: a page call or the issue-comment call that raises one of the four
\* API errors ends the operation with that very error: it is the last host
\* call, and nothing is returned.
C8_ErrorsTerminal ==
  \A j \in 1..Len(calls) :
    (calls[j].kind = "raise" /\ calls[j].error \in GitHubAPIErrors) =>
      /\ j = Len(calls)
      /\ pc = "raised"
      /\ error = calls[j].error

C8_Witness ==
  /\ pc = "raised"
  /\ Len(calls) >= 3
  /\ calls[Len(calls)].fn = "comments"
  /\ calls[Len(calls)].error = "GitHubGraphQLError"
  /\ error = "GitHubGraphQLError"
  /\ review_comments # <<>>

\* C6: every GraphQL call either returns or raises one of the four API
\* errors, whatever the process result.
C6_CallOutcomeTotal ==
  graphql_call.out # Pending =>
    \/ graphql_call.out.kind = "return"
    \/ graphql_call.out.error \in GitHubAPIErrors

\* The payload is a JSON object whose errors member is a non-empty array.
HasErrors(res) ==
  /\ res.status = "zero" /\ res.parses
  /\ res.payload.k = "obj"
  /\ "errors" \in DOMAIN res.payload.o
  /\ res.payload.o.errors.k = "arr"
  /\ Len(res.payload.o.errors.a) > 0
\* The payload is a JSON object without errors member, or with an empty one.
HasNoErrors(res) ==
  /\ res.status = "zero" /\ res.parses
  /\ res.payload.k = "obj"
  /\ "errors" \in DOMAIN res.payload.o => res.payload.o.errors = JEmptyArr

\* C7: an envelope with a non-empty errors array raises GitHubGraphQLError
\* whether or not data is present and well-formed; an envelope with no or
\* an empty errors array never does.
C7_GraphQLErrorsRaise ==
  graphql_call.out # Pending =>
    /\ HasErrors(graphql_call.res) =>
         graphql_call.out.kind = "raise" /\ graphql_call.out.error = "GitHubGraphQLError"
    /\ HasNoErrors(graphql_call.res) => graphql_call.out.error # "GitHubGraphQLError"

C7_Witness ==
  /\ graphql_call.fn = "threads"
  /\ graphql_call.res =
       ProcJSON(JObj([errors |-> JArr(<<JObj([message |-> JStr("x")])>>),
                      data |-> WellFormed("threads").o.data]))
  /\ graphql_call.out.kind = "raise"
  /\ graphql_call.out.error = "GitHubGraphQLError"

\* The workflow run id of a failed run or of a CIFailure.
RunIdOf(r) == r.o.workflow_run_id
\* Position in failed_runs of the first run with the id.
FirstWithId(id) ==
  CHOOSE j \in 1..Len(failed_runs.a) :
    /\ RunIdOf(failed_runs.a[j]) = id
    /\ \A h \in 1..(j - 1) : RunIdOf(failed_runs.a[h]) # id

\* C9: collect_ci_failures yields at most one CIFailure per workflow run
\* id, that of the first run with the id, and fetches the log exactly once
\* for each distinct run id.
C9_RunsDeduplicated ==
  /\ \A i, j \in 1..Len(ci_failures) :
       (i # j /\ RunIdOf(ci_failures[i]) # JNull) =>
         RunIdOf(ci_failures[i]) # RunIdOf(ci_failures[j])
  /\ \A i \in 1..Len(ci_failures) :
       RunIdOf(ci_failures[i]) # JNull =>
         LET first == failed_runs.a[FirstWithId(RunIdOf(ci_failures[i]))] IN
         /\ ci_failures[i].o.name = first.o.name
         /\ ci_failures[i].o.details_url = first.o.details_url
         /\ ci_failures[i].o.workflow_url = first.o.workflow_url
  /\ \A i, j \in 1..Len(log_calls) : i # j => log_calls[i].run_id # log_calls[j].run_id
  /\ ci_pc = "done" =>
       {log_calls[j].run_id : j \in 1..Len(log_calls)}
         = {RunIdOf(failed_runs.a[j]) : j \in 1..Len(failed_runs.a)} \ {JNull}

C9_Witness ==
  /\ ci_pc = "done"
  /\ Len(failed_runs.a) = 3
  /\ RunIdOf(failed_runs.a[1]) = JNum(1)
  /\ RunIdOf(failed_runs.a[2]) = JNum(2)
  /\ RunIdOf(failed_runs.a[3]) = JNum(1)
  /\ failed_runs.a[1].o.name # failed_runs.a[3].o.name
  /\ Len(ci_failures) = 2
  /\ Len(log_calls) = 2

\* C10: a log fetch that fails does not make collect_ci_failures raise; its
\* error message stands for that run's log (verbatim with full logs,
\* summarised like any other log without), and the result has one CIFailure
\* for every distinct dedup key.
C10_LogFailureAbsorbed ==
  /\ ci_pc = "raised" => log_calls = <<>>
  /\ \A j \in 1..Len(log_calls) :
       ~log_calls[j].res.ok =>
         LET message == FetchFailedText(log_calls[j].run_id, RunViewError(log_calls[j].res.text)) IN
         \E i \in 1..Len(ci_failures) :
           /\ RunIdOf(ci_failures[i]) = log_calls[j].run_id
           /\ include_full_logs => ci_failures[i].o.log_output = JLog(message)
           /\ ci_failures[i].o.log_output = JLog(SummarizeCiLog(message, include_full_logs))
  /\ ci_pc = "done" =>
       Len(ci_failures) = Cardinality({DedupKey(failed_runs.a[j]) : j \in 1..Len(failed_runs.a)})

C10_Witness ==
  /\ ci_pc = "done"
  /\ Len(log_calls) = 2
  /\ ~log_calls[1].res.ok
  /\ log_calls[1].res.text # EmptyText
  /\ log_calls[2].res.ok
  /\ Len(ci_failures) = 3
  /\ RunIdOf(ci_failures[3]) = JNull
  /\ ~include_full_logs

\* Index of the first of the lines holding the marker, 0 when none does.
FirstHolding(lines, marker) ==
  LET holding == {j \in 1..Len(lines) : \E h \in 1..Len(lines[j]) : Lower(lines[j][h]) = marker}
  IN IF holding = {} THEN 0 ELSE CHOOSE j \in holding : \A h \in holding : j <= h

\* The summary the precedence rule gives over the lines: from the first
\* summary-marker line, else from the first "failed" line, else the last
\* TailLines lines; joined and trimmed.
SummaryOver(lines) ==
  LET summary == FirstHolding(lines, "short test summary info")
      failed == FirstHolding(lines, "failed")
      n == Len(lines)
      kept == IF summary # 0 THEN [j \in 1..(n - summary + 1) |-> lines[summary + j - 1]]
              ELSE IF failed # 0 THEN [j \in 1..(n - failed + 1) |-> lines[failed + j - 1]]
              ELSE IF n > TailLines THEN [j \in 1..TailLines |-> lines[n - TailLines + j]]
              ELSE lines
  IN IF kept = <<>> THEN EmptyText ELSE Strip(kept)

SummarizeReturned == fn_call.fn = "summarize" /\ fn_call.out # Pending

\* C11 as stated: without full logs the summary is the precedence rule
\* applied to the lines of the log.
C11_SummaryOverLogLines ==
  (SummarizeReturned /\ ~fn_call.args[2]) =>
    fn_call.out.value = SummaryOver(SplitLines(fn_call.args[1]))

\* C11 amended: without full logs the summary is the precedence rule applied
\* to the lines of the trimmed log (summary marker first, even after a
\* "failed" line; else "failed"; else the last 40 lines), joined and trimmed.
C11_SummaryOverTrimmedLines ==
  (SummarizeReturned /\ ~fn_call.args[2]) =>
    fn_call.out.value = SummaryOver(SplitLines(Strip(fn_call.args[1])))

C11_Witness ==
  /\ SummarizeReturned /\ ~fn_call.args[2]
  /\ fn_call.args[1] = << <<"ok">>, <<" ", "FAILED", " ", "ok">>, <<"Short Test Summary Info">> >>
  /\ fn_call.out.value = << <<"Short Test Summary Info">> >>

\* C12: with full logs the log is returned untouched; without, an empty log
\* gives an empty summary.
C12_FullLogUntouched ==
  SummarizeReturned =>
    /\ fn_call.args[2] => fn_call.out.value = fn_call.args[1]
    /\ (~fn_call.args[2] /\ fn_call.args[1] = EmptyText) => fn_call.out.value = EmptyText

C12_Witness ==
  /\ SummarizeReturned /\ fn_call.args[2]
  /\ fn_call.args[1] = << <<" ">>, <<" ", "FAILED", " ", "ok">>, <<"ok", " ">> >>
  /\ fn_call.out.value = fn_call.args[1]

\* format_comments_as_markdown has run on the arguments of fn_call.
FormatRan == fn_call.fn = "format" /\ fn_call.out # Pending
FormatReturned == FormatRan /\ fn_call.out.kind = "return"

\* The characters of a line as one string.
RECURSIVE FlatLine(_)
FlatLine(line) == IF line = <<>> THEN "" ELSE line[1] \o FlatLine(Tail(line))

\* Nothing was handed to the formatter: no issue comment, no review
\* comment, and CI failures absent or empty.
NoInput ==
  /\ fn_call.args[1] = JEmptyArr
  /\ fn_call.args[2] = JEmptyArr
  /\ fn_call.args[6] \in {JNull, JEmptyArr}

\* C13: the formatter returns the single line "No comments found on this
\* PR." and a newline exactly when there is no issue comment, no review
\* comment and no CI failure; in every other case its output starts with the
\* title line of owner/repo#pr_number.
C13_EmptyNoticeOrTitle ==
  FormatRan =>
    /\ fn_call.out.kind = "return"
    /\ NoInput <=> fn_call.out.value = << <<"No comments found on this PR.">>, <<>> >>
    /\ ~NoInput => FlatLine(fn_call.out.value[1]) = "# PR Comments: o/r#7"

\* Where the lines of the rendered document start with the segment.
LinesStarting(first) ==
  {j \in 1..Len(fn_call.out.value) :
     fn_call.out.value[j] # <<>> /\ fn_call.out.value[j][1] = first}

\* The line of the set that comes last before line j, flattened.
LastBefore(indices, j) ==
  FlatLine(fn_call.out.value[CHOOSE i \in indices : i < j /\ \A h \in indices : h < j => h <= i])

\* The k-th index of the set, in ascending order.
Nth(indices, k) == CHOOSE j \in indices : Cardinality({i \in indices : i < j}) = k - 1

\* The review comments of the rendered document in document order: the
\* file header each stands under, its line-reference header, and its arrival
\* position in the input (told by its body).
Rendered ==
  LET bodies == LinesStarting("body")
      files == LinesStarting("### File: ")
      refs == LinesStarting("#### ")
  IN [k \in 1..Cardinality(bodies) |->
        LET j == Nth(bodies, k) IN
        [file |-> LastBefore(files, j),
         header |-> LastBefore(refs, j),
         n |-> CHOOSE n \in 1..Len(fn_call.args[1].a) : Digits(n) = Tail(fn_call.out.value[j])]]

\* The file headers of the rendered document, in document order.
FileHeaders ==
  LET files == LinesStarting("### File: ") IN
  [k \in 1..Cardinality(files) |-> FlatLine(fn_call.out.value[Nth(files, k)])]

\* The file header of a path, and the place of the paths in ascending
\* lexicographic order: "a" < "a.py" < "b.py".
HeaderOfPath(path) ==
  CASE path = PathA -> "### File: U+0060aU+0060"
    [] path = PathAPy -> "### File: U+0060a.pyU+0060"
    [] path = PathBPy -> "### File: U+0060b.pyU+0060"
HeaderRank(header) ==
  CASE header = "### File: U+0060aU+0060" -> 1
    [] header = "### File: U+0060a.pyU+0060" -> 2
    [] header = "### File: U+0060b.pyU+0060" -> 3

\* The sort key of a review comment: line, else original_line, else 0.
KeyOf(comment) ==
  IF comment.o.line # JNull THEN comment.o.line.n
  ELSE IF comment.o.original_line # JNull THEN comment.o.original_line.n
  ELSE 0

\* C14: in the rendered document every review comment stands once, under
\* the header of its path; there is one header per distinct path, the
\* headers ascend in lexicographic order of path, and under one header the
\* comments ascend by line, else original_line, else 0.
C14_GroupedAndSorted ==
  FormatReturned =>
    LET input == fn_call.args[1].a
        headers == FileHeaders
        rendered == Rendered
    IN /\ Len(rendered) = Len(input)
       /\ \A n \in 1..Len(input) : \E j \in 1..Len(rendered) : rendered[j].n = n
       /\ \A j \in 1..Len(rendered) : rendered[j].file = HeaderOfPath(input[rendered[j].n].o.path)
       /\ Len(headers) = Cardinality({input[n].o.path : n \in 1..Len(input)})
       /\ \A j, h \in 1..Len(headers) : j < h => HeaderRank(headers[j]) < HeaderRank(headers[h])
       /\ \A j, h \in 1..Len(rendered) :
            (j < h /\ rendered[j].file = rendered[h].file) =>
              KeyOf(input[rendered[j].n]) <= KeyOf(input[rendered[h].n])

\* b.py arrives first; of the two a.py comments the one that has only an
\* original line (2) arrives before the one at line 1.
C14_Witness ==
  /\ FormatReturned
  /\ Len(fn_call.args[1].a) = 3
  /\ fn_call.args[1].a[1].o.path = PathBPy
  /\ fn_call.args[1].a[2].o.line = JNull /\ fn_call.args[1].a[2].o.original_line = JNum(2)
  /\ fn_call.args[1].a[3].o.path = PathAPy /\ fn_call.args[1].a[3].o.line = JNum(1)
  /\ <<Rendered[1].n, Rendered[2].n, Rendered[3].n>> = <<3, 2, 1>>

\* The line-reference header of a comment: a range when start_line and line
\* are both known and differ, the line when the line is known, else the
\* position in the diff.
HeaderOfLines(comment) ==
  LET line == comment.o.line
      start_line == comment.o.start_line
  IN IF line # JNull /\ start_line # JNull /\ start_line # line
     THEN "#### **Lines " \o Digit(start_line.n) \o "-" \o Digit(line.n) \o "** (@u)"
     ELSE IF line # JNull THEN "#### **Line " \o Digit(line.n) \o "** (@u)"
     ELSE "#### **Position in diff** (@u)"

\* C15: every rendered review comment stands under the line-reference
\* header of its own start_line and line.
C15_LineReferenceHeader ==
  FormatReturned =>
    LET rendered == Rendered IN
    \A j \in 1..Len(rendered) : rendered[j].header = HeaderOfLines(fn_call.args[1].a[rendered[j].n])

\* A range, a start equal to the line, and a start without a line.
C15_Witness ==
  /\ FormatReturned
  /\ Len(Rendered) = 3
  /\ \E j \in 1..3 : Rendered[j].header = "#### **Lines 1-2** (@u)"
  /\ \E j \in 1..3 : /\ Rendered[j].header = "#### **Line 1** (@u)"
                     /\ fn_call.args[1].a[Rendered[j].n].o.start_line = JNum(1)
  /\ \E j \in 1..3 : /\ Rendered[j].header = "#### **Position in diff** (@u)"
                     /\ fn_call.args[1].a[Rendered[j].n].o.start_line = JNum(1)

\* parse_pr_path has run on a path.
ParseRan == fn_call.fn = "parse" /\ fn_call.out # Pending

\* Positions of the first and last character of a path that is no slash
\* (0 when every character is one), and of the slashes between them.
FirstKept(s) ==
  IF \A j \in 1..Len(s) : s[j] = "/" THEN 0
  ELSE CHOOSE j \in 1..Len(s) : s[j] # "/" /\ \A h \in 1..(j - 1) : s[h] = "/"
LastKept(s) ==
  IF \A j \in 1..Len(s) : s[j] = "/" THEN 0
  ELSE CHOOSE j \in 1..Len(s) : s[j] # "/" /\ \A h \in (j + 1)..Len(s) : s[h] = "/"
InnerSlashes(s) == {j \in FirstKept(s)..LastKept(s) : j > 0 /\ s[j] = "/"}
\* Position of the n-th of them.
SlashAt(s, n) ==
  CHOOSE j \in InnerSlashes(s) : Cardinality({h \in InnerSlashes(s) : h < j}) = n - 1
\* The n-th segment between the leading and the trailing slashes.
Segment(s, n) ==
  SubSeq(s, IF n = 1 THEN FirstKept(s) ELSE SlashAt(s, n - 1) + 1,
            IF n = Cardinality(InnerSlashes(s)) + 1 THEN LastKept(s) ELSE SlashAt(s, n) - 1)

\* C17: parse_pr_path returns (owner, repo, N) exactly for the paths
\* owner/repo/pull/N with any slashes before and after, and raises
\* ValueError for every other path: another number of segments, a third
\* segment that is not "pull", a segment after N.
C17_ParsesPullPaths ==
  ParseRan =>
    LET s == fn_call.args[1] IN
    IF Cardinality(InnerSlashes(s)) = 3 /\ Segment(s, 3) = PullLiteral
    THEN fn_call.out = FnReturn(<<Segment(s, 1), Segment(s, 2), Segment(s, 4)>>)
    ELSE fn_call.out = FnRaise("ValueError")

C17_Witness ==
  /\ ParseRan
  /\ fn_call.args[1] = <<"/", "o", "/", "o", "/", "p", "u", "l", "l", "/", "7", "/">>
  /\ fn_call.out = FnReturn(<< <<"o">>, <<"o">>, <<"7">> >>)

\* C18: the aggregation ends on a host whose pagination is finite.  The
\* comment loop of a thread keeps, besides the growing list, nothing but the
\* cursor of its next request, and the host answers a request by its cursor:
\* a comment page with has_next = true that is followed by a request with
\* the very same cursor is followed by it for ever.  So every comment-page
\* call that follows one in the same loop carries another cursor.
C18_CommentPaginationAdvances ==
  \A j \in 1..(Len(calls) - 1) :
    (/\ calls[j].fn = "comments" /\ calls[j].kind = "return" /\ Truthy(calls[j].has_next)
     /\ calls[j + 1].fn = "comments")
      => calls[j + 1].arg # calls[j].arg

\* C19: every aggregated record carries the path, line and start_line of
\* the thread that holds its comment on the host.
C19_CommentsOfOwnThread ==
  \A j \in 1..Len(review_comments) :
    LET rec == review_comments[j]
        t == HolderOf(rec)
    IN /\ rec.o.path = JTok("path", t, 0)
       /\ rec.o.line = JNum(t)
       /\ rec.o.start_line = JNull

\* The last thread-page call made.
LastThreadsCall == LET tc == CallsOf("threads") IN tc[Len(tc)]

\* C20: the two cursors are independent.  A thread-page request carries no
\* comments cursor and a comment-page request no threads cursor; the
\* threads cursor is the one the last thread-page call was made with while
\* that page is walked, comment pagination included, and the one it returned
\* when the next thread page is due; the comment cursor of a comment-page
\* request is one minted for the thread being processed.
C20_CursorsIndependent ==
  /\ \A j \in 1..Len(calls) :
       /\ calls[j].fn = "threads" => calls[j].req.commentsAfter = JNull
       /\ calls[j].fn = "comments" => calls[j].req.threadsAfter = JNull
  /\ (pc = "comments" \/ (calls # <<>> /\ calls[Len(calls)].fn = "comments" /\ pc # "threads"))
       => threads_after = LastThreadsCall.arg
  /\ (pc = "threads" /\ calls # <<>>) =>
       /\ threads_after = LastThreadsCall.cursor
       /\ next_thread_cursor = LastThreadsCall.cursor
  /\ pc = "comments" =>
       /\ comments_after.k = "str"
       /\ comments_after.s = "ccur"
       /\ JNum(comments_after.t) = PyGet(ThreadOfEdge(threads.a[idx]), "line")

\* Two threads of the first page have paginated their comments, each with
\* its own cursor, and the second thread page was then asked for with the
\* cursor of the first.
C20_Witness ==
  /\ Len(calls) >= 4
  /\ calls[2].fn = "comments" /\ calls[2].arg = JTok("ccur", 1, CommentPageSize)
  /\ calls[3].fn = "comments" /\ calls[3].arg = JTok("ccur", 2, CommentPageSize)
  /\ calls[4].fn = "threads" /\ calls[4].arg = calls[1].cursor
  /\ calls[4].req = [threadsAfter |-> JTok("tcur", 0, ThreadPageSize), commentsAfter |-> JNull]
  /\ calls[4].kind = "return"

\* gh_pr_helper has ended on a path that does not parse or on one of the
\* four API errors.
MainFailed ==
  /\ main_pc = "exited"
  /\ \/ Truthy(argv.pr_path) /\ pc = "idle"
     \/ pc = "raised" /\ error \in GitHubAPIErrors
     \/ ci_pc = "raised" /\ ci_error \in GitHubAPIErrors
\* Something other than the help has been written to standard output.
DocumentWritten == sys_stdout # <<>> /\ sys_stdout # <<HelpText>>

\* C16: the document is written to standard output only once the comment
\* fetches and the CI collection have ended well; on a path that does not
\* parse or one of the four API errors nothing is written to standard
\* output, a one-line "Error: {message}" is written to standard error and
\* the exit status is 1.
C16_AllOrNothingOneLine ==
  /\ DocumentWritten => pc = "done" /\ ci_pc = "done" /\ Len(sys_stdout) = 1
  /\ MainFailed =>
       /\ sys_stdout = <<>>
       /\ Len(sys_stderr) = 1
       /\ sys_stderr[1][1][1] = "Error: "
       /\ Len(sys_stderr[1]) = 1
       /\ exit_status = "1"

\* C16, amended: as above, the "Error: {message}" being written by one
\* print call and spanning as many lines as the message does.
C16_AllOrNothing ==
  /\ DocumentWritten => pc = "done" /\ ci_pc = "done" /\ Len(sys_stdout) = 1
  /\ MainFailed =>
       /\ sys_stdout = <<>>
       /\ Len(sys_stderr) = 1
       /\ sys_stderr[1][1][1] = "Error: "
       /\ exit_status = "1"

\* The comments were fetched, then the CI collection failed on a command
\* whose standard error had several lines.
C16_Witness ==
  /\ MainFailed
  /\ pc = "done" /\ review_comments # <<>>
  /\ ci_error = "GitHubAPICallError"
  /\ Len(sys_stderr[1]) > 1
  /\ sys_stdout = <<>>
  /\ exit_status = "1"

\* C21: the aggregated list is in arrival order: no comment stands before
\* a comment of an earlier thread, or before an earlier comment of its own
\* thread.
C21_ArrivalOrder ==
  \A i, j \in 1..Len(review_comments) :
    i < j =>
      \/ Aggregated[i][1] < Aggregated[j][1]
      \/ Aggregated[i][1] = Aggregated[j][1] /\ Aggregated[i][2] < Aggregated[j][2]

\* Envelopes without errors in which a key of the path data, repository,
\* pullRequest, reviewThreads is missing, or its value is null.
StructuralKeyMissing ==
  {Nest(d, "threads", JNull) : d \in 1..4}
    \cup {JEmptyObj} \cup {Nest(d, "threads", JEmptyObj) : d \in 1..3}

\* C22: an answer that parses, carries no errors and lacks a key of the
\* path to reviewThreads, or has null for it, makes
\* _fetch_review_threads_page raise GitHubResponseError; a reviewThreads
\* object without edges and pageInfo gives the defaults.
C22_MissingKeyIsResponseError ==
  (graphql_call.fn = "threads" /\ graphql_call.out # Pending /\ graphql_call.res.parses) =>
    /\ graphql_call.res.payload \in StructuralKeyMissing =>
         graphql_call.out.kind = "raise" /\ graphql_call.out.error = "GitHubResponseError"
    /\ graphql_call.res.payload = Nest(4, "threads", JEmptyObj) =>
         graphql_call.out = Return(JEmptyArr, JBool(FALSE), JNull)

\* fetch_failed_ci_runs has returned to collect_ci_failures.
RunsReturned == ci_pc \in {"loop", "done"}

\* The failed run of a context of the host.
RunOfContext(c) ==
  JObj([name |-> c.name,
        details_url |-> c.url,
        workflow_run_id |-> IF c.run = 0 THEN JNull ELSE JNum(c.run),
        workflow_url |-> IF c.run = 0 THEN JNull ELSE JTok("wurl", c.run, 0)])

\* C23: fetch_failed_ci_runs returns the contexts of the latest commit that
\* are CheckRuns with conclusion FAILURE, in the order of the context list,
\* each with its name, details URL and, when it belongs to a workflow run,
\* the run's id and URL.
C23_FailedCheckRunsOnly ==
  RunsReturned =>
    LET failing == SelectSeq(prContexts,
                     LAMBDA c : c.typename = "CheckRun" /\ c.conclusion = "FAILURE")
    IN failed_runs.a = [j \in 1..Len(failing) |-> RunOfContext(failing[j])]

\* A failing StatusContext and a passed CheckRun are left out, the failed
\* CheckRun after them is returned with the id and the URL of its run.
C23_Witness ==
  /\ RunsReturned
  /\ Len(prContexts) = 3
  /\ prContexts[1].typename = "StatusContext" /\ prContexts[1].conclusion = "FAILURE"
  /\ prContexts[2].typename = "CheckRun" /\ prContexts[2].conclusion = "SUCCESS"
  /\ Len(failed_runs.a) = 1
  /\ RunIdOf(failed_runs.a[1]) = JNum(2)
  /\ failed_runs.a[1].o.workflow_url = JTok("wurl", 2, 0)

\* The identity of a failed run: its workflow run id, else its name and its
\* details URL.
IdentityOf(run) ==
  IF RunIdOf(run) # JNull THEN <<"id", RunIdOf(run)>>
  ELSE <<"pair", run.o.name, run.o.details_url>>

\* C24: collect_ci_failures yields one CIFailure for every identity among
\* the failed runs: two runs without a run id are collapsed exactly when
\* their names and their details URLs are equal, and a run with a run id is
\* never collapsed with one without.
C24_DedupIdentity ==
  ci_pc = "done" =>
    Len(ci_failures) = Cardinality({IdentityOf(failed_runs.a[j]) : j \in 1..Len(failed_runs.a)})

\* C25: fetch_ci_run_log is called only for runs that have a workflow run
\* id, and the CIFailure of a run without one has the placeholder text as
\* its log_output.
C25_NoFetchWithoutRunId ==
  /\ \A j \in 1..Len(log_calls) :
       /\ log_calls[j].run_id # JNull
       /\ \E i \in 1..Len(failed_runs.a) : RunIdOf(failed_runs.a[i]) = log_calls[j].run_id
  /\ \A i \in 1..Len(ci_failures) :
       RunIdOf(ci_failures[i]) = JNull =>
         ci_failures[i].o.log_output = JLog(<< <<"No workflow run ID available to fetch logs.">> >>)

\* A run without an id between two runs with ids: two log fetches, three
\* CIFailures, the placeholder in the second.
C25_Witness ==
  /\ ci_pc = "done"
  /\ Len(ci_failures) = 3
  /\ RunIdOf(ci_failures[1]) = JNum(1)
  /\ RunIdOf(ci_failures[2]) = JNull
  /\ RunIdOf(ci_failures[3]) = JNum(2)
  /\ ci_failures[2].o.log_output = JLog(<< <<"No workflow run ID available to fetch logs.">> >>)
  /\ Len(log_calls) = 2
  /\ log_calls[2].run_id = JNum(2)

\* C26: two review comments of one path with equal sort keys are rendered
\* in the order in which they arrived.
C26_SortStable ==
  FormatReturned =>
    LET input == fn_call.args[1].a
        rendered == Rendered
    IN \A j, h \in 1..Len(rendered) :
         (/\ j < h
          /\ input[rendered[j].n].o.path = input[rendered[h].n].o.path
          /\ KeyOf(input[rendered[j].n]) = KeyOf(input[rendered[h].n]))
           => rendered[j].n < rendered[h].n

\* Of three a.py comments the first has only an original line (2), the
\* second is at line 2 and the third at line 1: the third is rendered
\* first, the other two after it as they arrived.
C26_Witness ==
  /\ FormatReturned
  /\ Len(fn_call.args[1].a) = 3
  /\ \A n \in 1..3 : fn_call.args[1].a[n].o.path = PathAPy
  /\ fn_call.args[1].a[1].o.line = JNull /\ fn_call.args[1].a[1].o.original_line = JNum(2)
  /\ fn_call.args[1].a[2].o.line = JNum(2)
  /\ fn_call.args[1].a[3].o.line = JNum(1)
  /\ LET rendered == Rendered IN <<rendered[1].n, rendered[2].n, rendered[3].n>> = <<3, 1, 2>>

\* C27: a list of review comments in which some diff_hunk has no value is
\* rendered: the formatter returns a document.
C27_AbsentHunkRendered ==
  (FormatRan /\ \E n \in 1..Len(fn_call.args[1].a) : fn_call.args[1].a[n].o.diff_hunk = JNull)
    => fn_call.out.kind = "return"

\* The header an issue comment stands under: its author, "unknown" when the
\* comment has no user.
IssueHeader(comment) ==
  "### @" \o (IF "user" \in DOMAIN comment.o
              THEN FlatLine(comment.o.user.o.login.c) ELSE "unknown")

\* The header a CI failure stands under: its name, "Failed check" when it
\* has none, and the run id after it when there is one.
EntryHeader(failure) ==
  LET name == IF failure.o.name = JNull THEN "Failed check" ELSE FlatLine(failure.o.name.c)
  IN IF failure.o.workflow_run_id = JNull
     THEN "### " \o name
     ELSE "### " \o name \o " (Run ID " \o FlatLine(Digits(failure.o.workflow_run_id.n)) \o ")"

\* C28: a document rendered from some input starts with the title line;
\* the "General PR Comments" header is there exactly when there is an issue
\* comment, with one "### @author" subsection per comment in input order;
\* the "Inline Code Review Comments" header exactly when there is a review
\* comment; the "CI Failures" header exactly when there is a CI failure,
\* with one entry per failure headed "name (Run ID id)" when the run id
\* exists and "name" otherwise; and the sections stand in that order.
C28_SectionOrder ==
  (FormatReturned /\ ~NoInput) =>
    LET doc == fn_call.out.value
        general == LinesStarting("## General PR Comments")
        inline == LinesStarting("## Inline Code Review Comments")
        ci == LinesStarting("## CI Failures")
        authors == LinesStarting("### @")
        entries == LinesStarting("### ")
        issues == fn_call.args[2].a
        reviews == fn_call.args[1].a
        failures == IF fn_call.args[6] = JNull THEN <<>> ELSE fn_call.args[6].a
    IN /\ FlatLine(doc[1]) = "# PR Comments: o/r#7"
       /\ Cardinality(general) = (IF Len(issues) > 0 THEN 1 ELSE 0)
       /\ Cardinality(inline) = (IF Len(reviews) > 0 THEN 1 ELSE 0)
       /\ Cardinality(ci) = (IF Len(failures) > 0 THEN 1 ELSE 0)
       /\ \A g \in general \cup inline \cup ci : g > 1
       /\ \A g \in general : \A h \in inline \cup ci : g < h
       /\ \A g \in inline : \A h \in ci : g < h
       /\ Cardinality(authors) = Len(issues)
       /\ \A k \in 1..Len(issues) :
            LET j == Nth(authors, k)
            IN /\ FlatLine(doc[j]) = IssueHeader(issues[k])
               /\ \A g \in general : g < j
               /\ \A h \in inline \cup ci : j < h
       /\ Cardinality(entries) = Len(failures)
       /\ \A k \in 1..Len(failures) :
            LET j == Nth(entries, k)
            IN /\ FlatLine(doc[j]) = EntryHeader(failures[k])
               /\ \A h \in general \cup inline \cup ci : h < j

\* all three sections are rendered, two issue comments in the first and, in
\* the last, a failure without a run id before one with a run id
C28_Witness ==
  /\ FormatReturned
  /\ Len(fn_call.args[2].a) = 2
  /\ Len(fn_call.args[1].a) > 0
  /\ fn_call.args[6] # JNull /\ Len(fn_call.args[6].a) = 2
  /\ \E j \in LinesStarting("### ") :
       FlatLine(fn_call.out.value[j]) = "### a (Run ID 1)"
  /\ \E j \in LinesStarting("### ") :
       FlatLine(fn_call.out.value[j]) = "### Failed check"
  /\ LinesStarting("## General PR Comments") # {}
  /\ LinesStarting("## Inline Code Review Comments") # {}
  /\ LinesStarting("## CI Failures") # {}

\* determine_target_branch has returned.
BranchRan == fn_call.fn = "branch" /\ fn_call.out # Pending

\* C29: determine_target_branch follows a strict priority. A set
\* existing_branch is returned with False whatever the other inputs are;
\* else use_new_branch gives ("", True) whatever the linked branches are;
\* else a current branch that is among the linked branches is returned with
\* False; else the first linked branch is returned with False; else, the
\* linked branches being empty or None, the result is ("", True).
C29_StrictPriority ==
  BranchRan =>
    LET current == fn_call.args[2]
        existing == fn_call.args[3].existing_branch
        use_new == fn_call.args[3].use_new_branch
        linked == IF fn_call.args[4] = <<>> THEN <<>> ELSE fn_call.args[4][1]
        is_set == existing \notin {<<>>, <<"">>}
        is_linked == current \in {linked[j] : j \in 1..Len(linked)}
        result == fn_call.out.value
    IN /\ fn_call.out.kind = "return"
       /\ is_set => result = <<existing[1], FALSE>>
       /\ (~is_set /\ use_new) => result = <<"", TRUE>>
       /\ (~is_set /\ ~use_new /\ is_linked) => result = <<current, FALSE>>
       /\ (~is_set /\ ~use_new /\ ~is_linked /\ Len(linked) > 0) =>
            result = <<linked[1], FALSE>>
       /\ (~is_set /\ ~use_new /\ Len(linked) = 0) => result = <<"", TRUE>>

\* nothing asked for explicitly, and the current branch is linked to the
\* issue but is not the first linked branch: the call stays on it
C29_Witness ==
  /\ BranchRan
  /\ fn_call.args[3] = [existing_branch |-> <<>>, use_new_branch |-> FALSE]
  /\ fn_call.args[2] = "b2"
  /\ fn_call.args[4] = << <<"b1", "b2">> >>
  /\ fn_call.out.value = <<"b2", FALSE>>

\* The lines of the trimmed log from line k on, joined and trimmed; the
\* empty string when no line is left.
TrimmedSuffix(log_output, k) ==
  LET lines == SplitLines(Strip(log_output))
  IN IF k > Len(lines) THEN EmptyText ELSE Strip(SubSeq(lines, k, Len(lines)))

\* C30: without full logs the summary is a trimmed suffix of the lines of
\* the trimmed log, and summarizing a summary returns it unchanged.
C30_SummaryIdempotent ==
  /\ (SummarizeReturned /\ ~fn_call.args[2]) =>
       \E k \in 1..(Len(fn_call.args[1]) + 1) :
         fn_call.out.value = TrimmedSuffix(fn_call.args[1], k)
  /\ fn_call.fn = "resummarize" => fn_call.out.value = fn_call.args[1]

\* the summary of a log of more than TailLines lines without a marker, its
\* last TailLines lines, is summarized again and comes back unchanged
C30_Witness ==
  /\ fn_call.fn = "resummarize"
  /\ Len(fn_call.args[1]) = TailLines
  /\ fn_call.args[1][1] = <<"l", "2">>
  /\ fn_call.out.value = fn_call.args[1]

====
